---- MODULE Spec2Model ----
(***************************************************************************)
(* Arcade football 1v1: the physics worker (src/physicsWorker.js) and the  *)
(* match scene of the main thread (startMatch in src/unnamed/part_001).    *)
(*                                                                         *)
(* Units. Lengths are in centimetres and velocities in centimetres per     *)
(* second, so that the source's 0.05 m, 0.11 m, 0.5 m ... are integers.    *)
(* Times are in milliseconds, as in the source.                            *)
(*                                                                         *)
(* The two threads exchange messages over the worker's message port. Each  *)
(* direction is a FIFO queue: inbox (main -> worker) and outbox            *)
(* (worker -> main). Every handler runs to completion, so each handler is  *)
(* one action. Worker.terminate() stops the worker and discards the        *)
(* messages it has posted that the main thread has not yet processed (the  *)
(* HTML "terminate a worker" algorithm empties the port message queue of   *)
(* the outside port).                                                      *)
(*                                                                         *)
(* Box2D's world.Step is outside the repository: a step is modelled as a   *)
(* choice of the bodies' next states among sample states.                  *)
(*                                                                         *)
(* The replay player (playReplay) runs on the main thread without a        *)
(* worker. Its times are kept in thirds of a millisecond ("ticks"), so     *)
(* that the frame duration 100 / speed is an integer for the speeds 0.5,   *)
(* 1.0, 1.5 and 2.0.                                                       *)
(***************************************************************************)
EXTENDS Integers, Sequences, FiniteSets, TLC

\* ------------------------------------------------------------------ bounds
\* Queue capacities of the model (the real port queues are unbounded).
MaxInbox == 3
MaxOutbox == 2
\* Largest vertical speed commands may build up between two steps: a super
\* impulse, or two jump impulses.
MaxVy == 1300
\* Goals the driver emits in one behaviour at most.
MaxGoals == 1
\* Match time (ms) after which the AI specification stops the update loop.
MaxAITime == 300
\* Match time (ms) after which the throttle specification stops it, and
\* after which it has no more short frames.
MaxThrottleTime == 7500
MaxShortTime == 200

\* ------------------------------------------------- constants of the worker
WORLD_WIDTH == 1000
WORLD_HEIGHT == 500
PLAYER_RADIUS == 30
GOAL_MARGIN == 50
PLAYER1_START_X == 200
PLAYER_START_Y == 100
MOVE_SPEED == 400
JUMP_IMPULSE == 620
JUMP_Y_EPS == 5
JUMP_VY_LIMIT == 10
SUPER_IMPULSE == 1200
BALL_RADIUS == 11
\* GRAVITY = -9.81, as an acceleration downwards in cm/s^2.
GRAVITY == 981
\* setInterval(stepWorld, 1000 / 120), world.Step(1 / 120, 8, 3)
STEP_HZ == 120
\* The walls: boxes of half-width 0.1 m and half-height WORLD_HEIGHT / 2
\* centred at (0, WORLD_HEIGHT / 2) and (WORLD_WIDTH, WORLD_HEIGHT / 2).
WALL_HALF_WIDTH == 10
\* Friction of the players' fixtures and of the walls' (Box2D's default), in
\* percent.
FRICTION_PERCENT == 20
\* The top of the ground: a box of half-height 0.1 m centred at y = 0.
GROUND_TOP == 10

\* -------------------------------------------------- constants of the match
REGULATION_MS == 90000
OVERTIME_MS == 30000
SUPER_COOLDOWN1_MS == 5000
SUPER_COOLDOWN2_MS == 7000
RECORD_INTERVAL_MS == 100
AI_DEADBAND == 5
AI_JUMP_DY == 30
AI_JUMP_DX == 50
AI_SUPER_DY == 100
AI_SUPER_DX == 60

VARIABLES
    \* ---- worker (src/physicsWorker.js)
    engine,      \* "none" | "loading" | "running" | "failed" | "terminated"
    bodies,      \* key -> [x, y, vx, vy]; no key before setupWorld
    inbox,       \* messages posted by the main thread, not yet handled
    outbox,      \* messages posted by the worker, not yet handled
    \* ---- match scene (startMatch)
    scoreLeft, scoreRight, timeLeftMs, overtime,
    latestState, \* the last snapshot received, or Null
    playerInput, aiLastInput, aiLevelName,
    aiDecisionCountdown, superCooldown1, superCooldown2,
    replayFrames, recordAccumulator,
    \* ---- application
    ticker,      \* the callback on app.ticker: "update" | "replay" | "none"
    keys,        \* TRUE while onKeyDown/onKeyUp are registered
    stage,       \* "menu" | "match" | "result" | "replay": what is shown
    replays,     \* the in-memory replay collection
    storage,     \* localStorage item 'replays'
    \* ---- replay player (playReplay)
    playFrames,   \* frames: replay.frames of the replay being played
    speed,        \* the speed multiplier, in percent
    currentIndex, \* frames applied so far
    elapsed,      \* ticks accumulated and not yet consumed by a frame
    display,      \* what the stage shows: the last frame applied, or Null
    menuTimers,   \* pending timers set by setTimeout(showMenu, ...)
    \* ---- history
    endMatchCalls, \* number of times endMatch has run
    goalsEmitted,  \* number of goal messages the driver has posted
    workerThrew,   \* an exception has escaped a handler of the worker
    aiElapsed,     \* ms of updates since the last AI decision; -1: none yet
    aiCommand,     \* the command computed at the last AI decision
    aiHeld,        \* the last update re-sent that command although no
                   \* decision on the snapshot it held would have given it
    presented,     \* the frames the player has applied, in order
    playTime,      \* ticks of all update calls of the player
    finishes,      \* times the player has signalled completion
    recordedMs,    \* ms of the updates that ran the recorder
    sinceSuper1,   \* ms of updates since the last 'super' message for
                   \* player 1 was posted, counted up to the cooldown; the
                   \* cooldown also when none was posted
    sinceSuper2    \* the same for player 2, the AI

workerVars == <<engine, bodies, inbox, outbox, goalsEmitted, workerThrew>>
matchVars == <<scoreLeft, scoreRight, timeLeftMs, overtime, latestState,
               playerInput, aiLastInput, aiLevelName, aiDecisionCountdown,
               superCooldown1, superCooldown2, replayFrames,
               recordAccumulator, aiElapsed, aiCommand, aiHeld, recordedMs,
               sinceSuper1, sinceSuper2>>
playVars == <<playFrames, speed, currentIndex, elapsed, display, menuTimers,
              presented, playTime, finishes>>
appVars == <<ticker, keys, stage, replays, storage, endMatchCalls, playVars>>
vars == <<workerVars, matchVars, appVars>>

Null == [null |-> TRUE]

\* ============================================================== the worker

Body(x, y, vx, vy) == [x |-> x, y |-> y, vx |-> vx, vy |-> vy]

NoBodies == [k \in {} |-> Body(0, 0, 0, 0)]

\* createBall, createPlayer(1, 2), createPlayer(2, WORLD_WIDTH - 2)
InitialBodies ==
    [k \in {"ball", "1", "2"} |->
        CASE k = "ball" -> Body(WORLD_WIDTH \div 2, WORLD_HEIGHT - 100, 0, 0)
          [] k = "1" -> Body(PLAYER1_START_X, PLAYER_START_Y, 0, 0)
          [] k = "2" -> Body(WORLD_WIDTH - PLAYER1_START_X, PLAYER_START_Y, 0, 0)]

\* Mutant: the players are moved but keep their velocity.
resetPositions_KeepsPlayerVelocity(bs) ==
    [k \in DOMAIN InitialBodies |->
        IF k = "ball" THEN InitialBodies[k]
        ELSE Body(InitialBodies[k].x, InitialBodies[k].y, bs[k].vx, bs[k].vy)]

\* Mutant: the ball is put back but keeps its velocity.
resetPositions_KeepsBallVelocity(bs) ==
    [k \in DOMAIN InitialBodies |->
        IF k = "ball"
        THEN Body(InitialBodies[k].x, InitialBodies[k].y, bs[k].vx, bs[k].vy)
        ELSE InitialBodies[k]]

\* resetPositions: positions and linear velocities of the three bodies.
resetPositions(bs) == InitialBodies

\* Mutant: the two sides exchanged.
GoalOf_Swapped(ballX) ==
    IF ballX < -GOAL_MARGIN THEN "left"
    ELSE IF ballX > WORLD_WIDTH + GOAL_MARGIN THEN "right"
    ELSE "none"

\* The goal test of stepWorld on the ball's x after world.Step.
GoalOf(ballX) ==
    IF ballX < -GOAL_MARGIN THEN "right"
    ELSE IF ballX > WORLD_WIDTH + GOAL_MARGIN THEN "left"
    ELSE "none"

GoalMsg(side) == [type |-> "goal", scorer |-> side]
StateMsg(bs) == [type |-> "state", state |-> bs]

\* Mutant: the snapshot is built before the reset.
StepMessages_SnapshotBeforeReset(stepped) ==
    LET goal == GoalOf(stepped["ball"].x)
    IN  IF goal # "none"
        THEN <<GoalMsg(goal), StateMsg(stepped)>>
        ELSE <<StateMsg(stepped)>>

\* What stepWorld posts, in order, given the bodies after world.Step.
StepMessages(stepped) ==
    LET goal == GoalOf(stepped["ball"].x)
        after == IF goal # "none" THEN resetPositions(stepped) ELSE stepped
    IN  IF goal # "none"
        THEN <<GoalMsg(goal), StateMsg(after)>>
        ELSE <<StateMsg(after)>>

\* The bodies stepWorld leaves behind.
StepBodies(stepped) ==
    IF GoalOf(stepped["ball"].x) # "none"
    THEN resetPositions(stepped) ELSE stepped

\* Mutant: with both directions pressed, right wins.
TargetVx_RightWins(input) ==
    IF input.right THEN MOVE_SPEED
    ELSE IF input.left THEN -MOVE_SPEED
    ELSE 0

\* handleInput: the horizontal target velocity of an input.
TargetVx(input) ==
    IF input.left /\ ~input.right THEN -MOVE_SPEED
    ELSE IF input.right /\ ~input.left THEN MOVE_SPEED
    ELSE 0

Abs(n) == IF n < 0 THEN -n ELSE n

\* Mutant: the gate tests the height only.
JumpAllowed_AnyVelocity(b) == b.y <= PLAYER_RADIUS + JUMP_Y_EPS

\* Mutant: the gate tests the height and that the body is not falling.
JumpAllowed_NotFalling(b) ==
    b.y <= PLAYER_RADIUS + JUMP_Y_EPS /\ b.vy > -JUMP_VY_LIMIT

\* handleInput: the jump gate on the body's position and velocity.
JumpAllowed(b) == b.y <= PLAYER_RADIUS + JUMP_Y_EPS /\ Abs(b.vy) < JUMP_VY_LIMIT

\* handleInput(data): an unknown id is ignored. An impulse of k * mass
\* changes the velocity by k.
handleInput(bs, id, input) ==
    IF id \notin DOMAIN bs THEN bs
    ELSE LET b == bs[id]
             vy == IF input.jump /\ JumpAllowed(b)
                   THEN b.vy + JUMP_IMPULSE ELSE b.vy
         IN  [bs EXCEPT ![id] = Body(b.x, b.y, TargetVx(input), vy)]

\* Mutant: the super impulse is gated like the jump.
handleSuper_Gated(bs, id) ==
    IF id \notin DOMAIN bs THEN bs
    ELSE IF JumpAllowed(bs[id]) THEN [bs EXCEPT ![id].vy = @ + SUPER_IMPULSE]
    ELSE bs

\* self.onmessage, type 'super'.
handleSuper(bs, id) ==
    IF id \notin DOMAIN bs THEN bs
    ELSE [bs EXCEPT ![id].vy = @ + SUPER_IMPULSE]

\* self.onmessage, type 'reset': resetPositions dereferences bodies.ball, so
\* it throws before the world is built and changes nothing.
handleReset(bs) ==
    IF "ball" \in DOMAIN bs THEN resetPositions(bs) ELSE bs

\* self.onmessage(event)
OnMessageBodies(bs, m) ==
    CASE m.type = "input" -> handleInput(bs, m.id, m.input)
      [] m.type = "reset" -> handleReset(bs)
      [] m.type = "super" -> handleSuper(bs, m.id)
      [] OTHER -> bs

\* Mutant: without the tests `if (!body) return` and `if (body)`, a command
\* to a missing body calls a method of undefined.
Throws_MissingBody(bs, m) ==
    \/ m.type = "reset" /\ "ball" \notin DOMAIN bs
    \/ m.type \in {"input", "super"} /\ m.id \notin DOMAIN bs

\* self.onmessage(event) ends with an uncaught exception: resetPositions
\* calls a method of bodies.ball, which is undefined before setupWorld;
\* handleInput and the super branch return when there is no body.
Throws(bs, m) == m.type = "reset" /\ "ball" \notin DOMAIN bs

WorkerLive == engine \in {"loading", "running", "failed"}

\* Box2D().then(...): setupWorld, then setInterval(stepWorld, 1000 / 120).
EngineLoaded ==
    /\ engine = "loading"
    /\ engine' = "running"
    /\ bodies' = InitialBodies
    /\ UNCHANGED <<inbox, outbox, goalsEmitted, workerThrew, matchVars,
                   appVars>>

\* The Box2D module does not load: no world, no interval.
EngineFailed ==
    /\ engine = "loading"
    /\ engine' = "failed"
    /\ UNCHANGED <<bodies, inbox, outbox, goalsEmitted, workerThrew, matchVars,
                   appVars>>

\* stepWorld(): `stepped` is the bodies after world.Step(1 / 120, 8, 3).
stepWorld(stepped) ==
    /\ engine = "running"
    /\ Len(outbox) + 2 <= MaxOutbox
    /\ GoalOf(stepped["ball"].x) # "none" => goalsEmitted < MaxGoals
    /\ outbox' = outbox \o StepMessages(stepped)
    /\ bodies' = StepBodies(stepped)
    /\ goalsEmitted' =
         goalsEmitted + (IF GoalOf(stepped["ball"].x) # "none" THEN 1 ELSE 0)
    /\ UNCHANGED <<engine, inbox, workerThrew, matchVars, appVars>>

\* self.onmessage on the oldest pending message of the main thread.
WorkerOnMessage ==
    /\ WorkerLive
    /\ inbox # <<>>
    /\ bodies' = OnMessageBodies(bodies, Head(inbox))
    /\ \A k \in DOMAIN bodies' : bodies'[k].vy <= MaxVy
    /\ inbox' = Tail(inbox)
    /\ workerThrew' = (workerThrew \/ Throws(bodies, Head(inbox)))
    /\ UNCHANGED <<engine, outbox, goalsEmitted, matchVars, appVars>>

\* =========================================================== the main thread

aiLevels == <<"Rookie", "Amateur", "Pro", "Elite", "Legend">>

\* Mutant: Elite reacts as slowly as Amateur.
aiProfiles_EliteSlower ==
    [n \in {aiLevels[i] : i \in 1..Len(aiLevels)} |->
        CASE n = "Rookie"  -> [reactionMs |-> 300, aimError |-> 15]
          [] n = "Amateur" -> [reactionMs |-> 250, aimError |-> 12]
          [] n = "Pro"     -> [reactionMs |-> 200, aimError |-> 9]
          [] n = "Elite"   -> [reactionMs |-> 250, aimError |-> 6]
          [] n = "Legend"  -> [reactionMs |-> 120, aimError |-> 3]]

\* aiProfiles: reactionTime * 1000 (ms) and aimError (degrees).
aiProfiles ==
    [n \in {aiLevels[i] : i \in 1..Len(aiLevels)} |->
        CASE n = "Rookie"  -> [reactionMs |-> 300, aimError |-> 15]
          [] n = "Amateur" -> [reactionMs |-> 250, aimError |-> 12]
          [] n = "Pro"     -> [reactionMs |-> 200, aimError |-> 9]
          [] n = "Elite"   -> [reactionMs |-> 150, aimError |-> 6]
          [] n = "Legend"  -> [reactionMs |-> 120, aimError |-> 3]]

Input(l, r, j, s) == [left |-> l, right |-> r, jump |-> j, super |-> s]
NoInput == Input(FALSE, FALSE, FALSE, FALSE)

InputMsg(id, input) == [type |-> "input", id |-> id, input |-> input]
SuperMsg(id) == [type |-> "super", id |-> id]
ResetMsg == [type |-> "reset"]

Max(a, b) == IF a > b THEN a ELSE b
Min(a, b) == IF a < b THEN a ELSE b

\* replayFrames is kept as runs: <<frame, n>> stands for n consecutive
\* pushes of equal frames (one update pushes the same frame for every
\* interval it crosses).
PushFrames(frames, frame, n) ==
    IF n = 0 THEN frames
    ELSE IF frames # <<>> /\ frames[Len(frames)][1] = frame
    THEN [frames EXCEPT ![Len(frames)] = <<frame, @[2] + n>>]
    ELSE Append(frames, <<frame, n>>)

RECURSIVE FrameCount(_)
FrameCount(frames) ==
    IF frames = <<>> THEN 0
    ELSE frames[Len(frames)][2] + FrameCount(SubSeq(frames, 1, Len(frames) - 1))

\* The frame object built by the recorder in update.
Frame(st, l, r, t) ==
    [ball |-> <<st["ball"].x, st["ball"].y>>,
     p1 |-> <<st["1"].x, st["1"].y>>,
     p2 |-> <<st["2"].x, st["2"].y>>,
     scoreLeft |-> l, scoreRight |-> r, timeLeft |-> t]

\* The record endMatch appends; finalScore `${scoreLeft}:${scoreRight}` is
\* kept as the pair of its two numbers. Date.now() is not modelled.
ReplayRecord(level, l, r, frames) ==
    [aiLevel |-> level, finalScore |-> <<l, r>>, frames |-> frames]

\* saveReplays: the value written to localStorage is the JSON text of the
\* collection.
Stringify(list) == [json |-> list]

\* Mutant: the timer must go below zero to expire.
Expiry_BelowZero(ot, t, l, r) ==
    IF ~ot /\ t < 0
    THEN (IF l = r THEN "overtime" ELSE "end")
    ELSE IF ot /\ t < 0 THEN "end"
    ELSE "continue"

\* Mutant: regulation always goes to overtime.
Expiry_AlwaysOvertime(ot, t, l, r) ==
    IF ~ot /\ t <= 0 THEN "overtime"
    ELSE IF ot /\ t <= 0 THEN "end"
    ELSE "continue"

\* Mutant: the first branch does not test the overtime flag, so an expired
\* overtime with a tied score starts another overtime.
Expiry_OvertimeAgain(ot, t, l, r) ==
    IF t <= 0
    THEN (IF l = r THEN "overtime" ELSE "end")
    ELSE "continue"

\* Mutant: the test of the scores is inverted, a tie ends the match and a
\* lead starts overtime.
Expiry_TieEnds(ot, t, l, r) ==
    IF ~ot /\ t <= 0
    THEN (IF l = r THEN "end" ELSE "overtime")
    ELSE IF ot /\ t <= 0 THEN "end"
    ELSE "continue"

\* Mutant: there is no overtime, the expiry of regulation ends the match.
Expiry_NoOvertime(ot, t, l, r) == IF t <= 0 THEN "end" ELSE "continue"

\* update: what the expiry test decides for the decremented timer.
Expiry(ot, t, l, r) ==
    IF ~ot /\ t <= 0
    THEN (IF l = r THEN "overtime" ELSE "end")
    ELSE IF ot /\ t <= 0 THEN "end"
    ELSE "continue"

\* Mutant: the goal is credited to the other side.
ScoreAfterGoal_OtherSide(l, r, scorer) ==
    IF scorer = "left" THEN <<l, r + 1>> ELSE <<l + 1, r>>

\* worker.onmessage, type 'goal': the scores after the goal.
ScoreAfterGoal(l, r, scorer) ==
    IF scorer = "left" THEN <<l + 1, r>> ELSE <<l, r + 1>>

\* Mutant: the golden-goal test is missing.
GoldenGoal_Never(ot) == FALSE

\* worker.onmessage, type 'goal': the golden-goal test.
GoldenGoal(ot) == ot

\* Mutant: the worker is not terminated, its messages stay under way.
Terminated_KeepsMessages(q) == q

\* worker.terminate(): the worker's pending messages to the main thread.
Terminated(q) == <<>>

\* Mutant: endMatch without clearStage(), so update stays on the ticker.
endMatch_KeepsTicker(l, r, pending) ==
    /\ engine' = "terminated"
    /\ inbox' = <<>>
    /\ outbox' = <<>>
    /\ keys' = FALSE
    /\ ticker' = ticker
    /\ stage' = "result"
    /\ replays' = Append(replays, ReplayRecord(aiLevelName, l, r, replayFrames))
    /\ storage' = Stringify(replays')
    /\ endMatchCalls' = endMatchCalls + 1
    /\ menuTimers' = menuTimers + 1
    /\ UNCHANGED <<bodies, goalsEmitted, workerThrew, playFrames, speed,
                   currentIndex, elapsed, display, presented, playTime,
                   finishes>>

\* Mutant: endMatch without removeEventListener, the keys stay attached.
endMatch_KeepsKeys(l, r, pending) ==
    /\ engine' = "terminated"
    /\ inbox' = <<>>
    /\ outbox' = <<>>
    /\ keys' = keys
    /\ ticker' = "none"
    /\ stage' = "result"
    /\ replays' = Append(replays, ReplayRecord(aiLevelName, l, r, replayFrames))
    /\ storage' = Stringify(replays')
    /\ endMatchCalls' = endMatchCalls + 1
    /\ menuTimers' = menuTimers + 1
    /\ UNCHANGED <<bodies, goalsEmitted, workerThrew, playFrames, speed,
                   currentIndex, elapsed, display, presented, playTime,
                   finishes>>

\* endMatch(), with the scores it finds; `pending` are the worker's messages
\* not yet dispatched to worker.onmessage.
endMatch(l, r, pending) ==
    /\ engine' = "terminated"
    /\ inbox' = <<>>
    /\ outbox' = Terminated(pending)
    /\ keys' = FALSE
    /\ ticker' = "none"
    /\ stage' = "result"
    /\ replays' = Append(replays, ReplayRecord(aiLevelName, l, r, replayFrames))
    /\ storage' = Stringify(replays')
    /\ endMatchCalls' = endMatchCalls + 1
    /\ menuTimers' = menuTimers + 1
    /\ UNCHANGED <<bodies, goalsEmitted, workerThrew, playFrames, speed,
                   currentIndex, elapsed, display, presented, playTime,
                   finishes>>

\* Mutant: no dead-band, the AI moves whenever the target is not its x.
AIDecide_NoDeadband(st, last, cd2, err) ==
    LET ball == st["ball"]
        aiBody == st["2"]
        targetX == Min(Max(ball.x + ball.vx \div 2 + err, 0), WORLD_WIDTH)
    IN  [input |-> Input(targetX < aiBody.x, targetX > aiBody.x, FALSE, FALSE),
         cooldown |-> cd2, super |-> FALSE, target |-> targetX]

\* Mutant: the AI's super does not test superCooldown2.
AIDecide_SuperIgnoresCooldown(st, last, cd2, err) ==
    LET ball == st["ball"]
        aiBody == st["2"]
        targetX == Min(Max(ball.x + ball.vx \div 2 + err, 0), WORLD_WIDTH)
        move == Abs(targetX - aiBody.x) > AI_DEADBAND
        jump == ball.y > aiBody.y + AI_JUMP_DY
                /\ Abs(ball.x - aiBody.x) < AI_JUMP_DX
        fire == ball.y > aiBody.y + AI_SUPER_DY
                /\ Abs(ball.x - aiBody.x) < AI_SUPER_DX
    IN  [input |-> Input(move /\ targetX < aiBody.x,
                         move /\ targetX > aiBody.x, jump, fire),
         cooldown |-> IF fire THEN SUPER_COOLDOWN2_MS ELSE cd2,
         super |-> fire, target |-> targetX]

\* The AI block of update at a decision instant: the new aiLastInput, the
\* new superCooldown2, whether a 'super' message is posted, and targetX.
\* `err` is the value of (Math.random() - 0.5) * 2 * (aimError / 90).
AIDecide(st, last, cd2, err) ==
    IF "ball" \notin DOMAIN st \/ "2" \notin DOMAIN st
    THEN [input |-> last, cooldown |-> cd2, super |-> FALSE, target |-> Null]
    ELSE LET ball == st["ball"]
             aiBody == st["2"]
             predictedX == ball.x + ball.vx \div 2
             targetX == Min(Max(predictedX + err, 0), WORLD_WIDTH)
             move == Abs(targetX - aiBody.x) > AI_DEADBAND
             jump == ball.y > aiBody.y + AI_JUMP_DY
                     /\ Abs(ball.x - aiBody.x) < AI_JUMP_DX
             fire == cd2 <= 0 /\ ball.y > aiBody.y + AI_SUPER_DY
                     /\ Abs(ball.x - aiBody.x) < AI_SUPER_DX
         IN  [input |-> Input(move /\ targetX < aiBody.x,
                              move /\ targetX > aiBody.x, jump, fire),
              cooldown |-> IF fire THEN SUPER_COOLDOWN2_MS ELSE cd2,
              super |-> fire, target |-> targetX]

\* Mutant: a countdown of exactly 0 has not expired.
AIExpired_BelowZero(cd) == cd < 0

\* Mutant: the countdown is not consulted, every update decides.
AIExpired_Always(cd) == TRUE

\* update: the test of the decremented aiDecisionCountdown.
AIExpired(cd) == cd <= 0

\* Mutant: the accumulator restarts from 0 after a frame, the surplus is
\* lost.
RecorderRest_Reset(acc) == IF acc >= RECORD_INTERVAL_MS THEN 0 ELSE acc

\* The recorder's loop `while (recordAccumulator >= 100) { recordAccumulator
\* -= 100; ... push }` on the accumulator after `+= deltaMS`: what is left
\* in the accumulator, and the number of frames pushed.
RecorderRest(acc) == acc % RECORD_INTERVAL_MS
RecorderFrames(acc) == acc \div RECORD_INTERVAL_MS

\* The aim errors sampled for a level: both ends of the range and 0.
AimErrors(level) ==
    LET e == (aiProfiles[level].aimError * 100) \div 90 IN {-e, 0, e}

\* Mutant: the timer is not decremented.
Decremented_Frozen(t, d) == t

\* update: `timeLeftMs -= app.ticker.deltaMS`.
Decremented(t, d) == t - d

\* update(delta) with app.ticker.deltaMS = d. options.ai is true at the only
\* call of startMatch.
Update(d, err) ==
    /\ ticker = "update"
    /\ LET t1 == Decremented(timeLeftMs, d)
           what == Expiry(overtime, t1, scoreLeft, scoreRight)
       IN  IF what = "end"
           THEN /\ timeLeftMs' = t1
                /\ endMatch(scoreLeft, scoreRight, outbox)
                /\ UNCHANGED <<scoreLeft, scoreRight, overtime, latestState,
                               playerInput, aiLastInput, aiLevelName,
                               aiDecisionCountdown, superCooldown1,
                               superCooldown2, replayFrames, recordAccumulator,
                               aiElapsed, aiCommand, aiHeld, recordedMs,
                               sinceSuper1, sinceSuper2>>
           ELSE LET t2 == IF what = "overtime" THEN OVERTIME_MS ELSE t1
                    hasState == latestState # Null
                    cd == aiDecisionCountdown - d
                    sc2 == Max(0, superCooldown2 - d)
                    decide == hasState /\ AIExpired(cd)
                    dec == IF decide
                           THEN AIDecide(latestState, aiLastInput, sc2, err)
                           ELSE [input |-> aiLastInput, cooldown |-> sc2,
                                 super |-> FALSE, target |-> Null]
                    aiMsgs == IF hasState
                              THEN (IF dec.super THEN <<SuperMsg("2")>> ELSE <<>>)
                                   \o <<InputMsg("2", dec.input)>>
                              ELSE <<>>
                    acc == recordAccumulator + d
                IN  /\ Len(inbox) + 1 + Len(aiMsgs) <= MaxInbox
                    /\ overtime' = (what = "overtime" \/ overtime)
                    /\ timeLeftMs' = t2
                    /\ inbox' = inbox \o <<InputMsg("1", playerInput)>> \o aiMsgs
                    /\ playerInput' = [playerInput EXCEPT !.super = FALSE]
                    /\ IF hasState
                       THEN /\ aiDecisionCountdown' =
                                 IF decide THEN aiProfiles[aiLevelName].reactionMs
                                 ELSE cd
                            /\ superCooldown2' = dec.cooldown
                            /\ aiLastInput' = dec.input
                            /\ recordAccumulator' = RecorderRest(acc)
                            /\ replayFrames' =
                                 PushFrames(replayFrames,
                                     Frame(latestState, scoreLeft, scoreRight, t2),
                                     RecorderFrames(acc))
                            /\ aiElapsed' = IF decide THEN 0
                                            ELSE IF aiElapsed < 0 THEN aiElapsed
                                            ELSE aiElapsed + d
                            /\ aiCommand' = IF decide THEN dec.input
                                            ELSE aiCommand
                            /\ aiHeld' =
                                 (/\ ~decide
                                  /\ \A e \in AimErrors(aiLevelName) :
                                       AIDecide(latestState, aiLastInput, sc2,
                                                e).input # aiLastInput)
                            /\ recordedMs' = recordedMs + d
                       ELSE UNCHANGED <<aiDecisionCountdown, superCooldown2,
                                        aiLastInput, recordAccumulator,
                                        replayFrames, aiElapsed, aiCommand,
                                        aiHeld, recordedMs>>
                    /\ superCooldown1' = Max(0, superCooldown1 - d)
                    /\ sinceSuper1' = Min(sinceSuper1 + d, SUPER_COOLDOWN1_MS)
                    /\ sinceSuper2' = IF dec.super THEN 0
                                      ELSE Min(sinceSuper2 + d, SUPER_COOLDOWN2_MS)
                    /\ UNCHANGED <<scoreLeft, scoreRight, latestState,
                                   aiLevelName, engine, bodies, outbox,
                                   goalsEmitted, workerThrew, appVars>>

\* worker.onmessage(event) on the oldest pending message of the worker.
OnWorkerMessage ==
    /\ outbox # <<>>
    /\ LET m == Head(outbox)
       IN  IF m.type = "state"
           THEN /\ latestState' = m.state
                /\ outbox' = Tail(outbox)
                /\ UNCHANGED <<scoreLeft, scoreRight, engine, bodies, inbox,
                               goalsEmitted, workerThrew, appVars>>
           ELSE LET sc == ScoreAfterGoal(scoreLeft, scoreRight, m.scorer)
                IN  /\ scoreLeft' = sc[1]
                    /\ scoreRight' = sc[2]
                    /\ UNCHANGED latestState
                    /\ IF GoldenGoal(overtime)
                       THEN endMatch(sc[1], sc[2], Tail(outbox))
                       ELSE /\ outbox' = Tail(outbox)
                            /\ UNCHANGED <<engine, bodies, inbox, goalsEmitted,
                                           workerThrew, appVars>>
    /\ UNCHANGED <<timeLeftMs, overtime, playerInput, aiLastInput, aiLevelName,
                   aiDecisionCountdown, superCooldown1, superCooldown2,
                   replayFrames, recordAccumulator, aiElapsed, aiCommand,
                   aiHeld, recordedMs, sinceSuper1, sinceSuper2>>

\* The key codes of onKeyDown / onKeyUp, one per effect (KeyA, KeyD, ArrowUp
\* and KeyW are aliases; the mobile buttons set the same three flags).
KeyCodes == {"ArrowLeft", "ArrowRight", "Space", "KeyK"}

\* onKeyDown(e)
onKeyDown(code) ==
    /\ keys
    /\ IF code = "KeyK"
       THEN IF superCooldown1 <= 0
            THEN /\ Len(inbox) < MaxInbox
                 /\ playerInput' = [playerInput EXCEPT !.super = TRUE]
                 /\ superCooldown1' = SUPER_COOLDOWN1_MS
                 /\ inbox' = Append(inbox, SuperMsg("1"))
                 /\ sinceSuper1' = 0
            ELSE UNCHANGED <<playerInput, superCooldown1, inbox, sinceSuper1>>
       ELSE /\ playerInput' =
                 CASE code = "ArrowLeft" -> [playerInput EXCEPT !.left = TRUE]
                   [] code = "ArrowRight" -> [playerInput EXCEPT !.right = TRUE]
                   [] code = "Space" -> [playerInput EXCEPT !.jump = TRUE]
                   [] OTHER -> playerInput
            /\ UNCHANGED <<superCooldown1, inbox, sinceSuper1>>
    /\ UNCHANGED <<engine, bodies, outbox, goalsEmitted, workerThrew, appVars,
                   scoreLeft, scoreRight, timeLeftMs, overtime, latestState,
                   aiLastInput, aiLevelName, aiDecisionCountdown, superCooldown2,
                   replayFrames, recordAccumulator, aiElapsed, aiCommand,
                   aiHeld, recordedMs, sinceSuper2>>

\* onKeyUp(e)
onKeyUp(code) ==
    /\ keys
    /\ playerInput' =
         CASE code = "ArrowLeft" -> [playerInput EXCEPT !.left = FALSE]
           [] code = "ArrowRight" -> [playerInput EXCEPT !.right = FALSE]
           [] code = "Space" -> [playerInput EXCEPT !.jump = FALSE]
           [] OTHER -> playerInput
    /\ UNCHANGED <<workerVars, appVars, scoreLeft, scoreRight, timeLeftMs,
                   overtime, latestState, aiLastInput, aiLevelName,
                   aiDecisionCountdown, superCooldown1, superCooldown2,
                   replayFrames, recordAccumulator, aiElapsed, aiCommand,
                   aiHeld, recordedMs, sinceSuper1, sinceSuper2>>

\* ======================================================== the replay player

\* Ticks per millisecond: the unit of the player's times.
TICKS_PER_MS == 3

\* playReplay's parameter speed, in percent: the multipliers of the
\* buttons 0.5x, 1.0x and 1.5x of the replay list, and 2.0, which the
\* parameter admits although no button passes it.
Speeds == {50, 100, 150, 200}

\* Mutant: the speed is not used, a frame lasts 100 ms.
frameDuration_IgnoresSpeed(s) == RECORD_INTERVAL_MS * TICKS_PER_MS

\* frameDuration = 100 / speed, in ticks.
frameDuration(s) == (RECORD_INTERVAL_MS * TICKS_PER_MS * 100) \div s

\* The array replay.frames of a record whose frames are kept as runs.
RECURSIVE Flat(_)
Flat(log) ==
    IF log = <<>> THEN <<>>
    ELSE [k \in 1..log[1][2] |-> log[1][1]] \o Flat(Tail(log))

\* A stored text is [json |-> list], the list of the texts of its records;
\* Garbled stands for a record whose text is not valid JSON (cut short,
\* overwritten). localStorage.getItem gives null (Null) when there is no
\* item.
Garbled == [garbled |-> TRUE]

\* JSON.parse accepts the text: every part of it is valid JSON.
Parses(item) == \A i \in 1..Len(item.json) : item.json[i] # Garbled

\* loadReplays: `replays = json ? JSON.parse(json) : []`, and `replays = []`
\* when JSON.parse throws. What was parsed is kept as it is.
loadReplays(item) ==
    IF item = Null THEN <<>>
    ELSE IF Parses(item) THEN item.json
    ELSE <<>>

\* replays.splice(index, 1), for k = index + 1.
Splice(list, k) == SubSeq(list, 1, k - 1) \o SubSeq(list, k + 1, Len(list))

\* computeScale: pixels per centimetre, for a viewport of 1000 x 500.
scale == 1

\* convert: a world position in pixel space.
convert(pos) == <<pos[1] * scale, (WORLD_HEIGHT - pos[2]) * scale>>

\* The timer text `${minutes}:${seconds}` of a time left in ms.
TimerText(t) ==
    LET totSec == Max(0, -((-t) \div 1000))
    IN  <<totSec \div 60, totSec % 60>>

\* What one iteration of the loop in playReplay's update puts on the stage
\* for the frame f.
Shown(f) ==
    [ball |-> convert(f.ball), p1 |-> convert(f.p1), p2 |-> convert(f.p2),
     scoreText |-> <<f.scoreLeft, f.scoreRight>>,
     timerText |-> TimerText(f.timeLeft)]

\* Mutant: `if` instead of `while`, at most one frame per update.
Due_OnePerUpdate(e, fd, left) == Min(Min(e \div fd, left), 1)

\* Iterations of `while (elapsed >= frameDuration && currentIndex <
\* totalFrames)` for an elapsed time e and `left` frames not yet applied.
Due(e, fd, left) == Min(e \div fd, left)

\* Mutant: currentIndex++ comes before frames[currentIndex] is read.
Applied_ReadsAfterIncrement(fs, idx, n) ==
    [k \in 1..n |-> Shown(fs[Min(idx + k + 1, Len(fs))])]

\* What n iterations of the loop apply, starting with currentIndex = idx.
Applied(fs, idx, n) == [k \in 1..n |-> Shown(fs[idx + k])]

\* Mutant: the callback stays on the ticker.
TickerRemoved_Nothing(t) == t

\* app.ticker.remove(update)
TickerRemoved(t) == "none"

\* A click on a speed button of the replay list: showReplayList has loaded
\* the collection, the click runs playReplay(replays[i], s).
playReplay(i, s) ==
    /\ stage = "menu"
    /\ replays' = loadReplays(storage)
    /\ i \in 1..Len(replays')
    /\ playFrames' = Flat(replays'[i].frames)
    /\ speed' = s
    /\ currentIndex' = 0
    /\ elapsed' = 0
    /\ display' = Null
    /\ presented' = <<>>
    /\ playTime' = 0
    /\ finishes' = 0
    /\ ticker' = "replay"
    /\ stage' = "replay"
    /\ UNCHANGED <<keys, storage, endMatchCalls, menuTimers, workerVars,
                   matchVars>>

\* update() of playReplay with app.ticker.deltaMS = d ticks.
ReplayUpdate(d) ==
    /\ ticker = "replay"
    /\ playTime' = playTime + d
    /\ IF currentIndex >= Len(playFrames)
       THEN /\ ticker' = TickerRemoved(ticker)
            /\ menuTimers' = menuTimers + 1
            /\ finishes' = finishes + 1
            /\ UNCHANGED <<currentIndex, elapsed, display, presented>>
       ELSE LET e == elapsed + d
                fd == frameDuration(speed)
                n == Due(e, fd, Len(playFrames) - currentIndex)
                applied == Applied(playFrames, currentIndex, n)
            IN  /\ elapsed' = e - n * fd
                /\ currentIndex' = currentIndex + n
                /\ presented' = presented \o applied
                /\ display' = IF n = 0 THEN display ELSE applied[n]
                /\ UNCHANGED <<ticker, menuTimers, finishes>>
    /\ UNCHANGED <<playFrames, speed, stage, keys, replays, storage,
                   endMatchCalls, workerVars, matchVars>>

\* A click on the replays button of the menu: showReplayList() loads the
\* collection and lists it.
showReplayList ==
    /\ stage = "menu"
    /\ replays' = loadReplays(storage)
    /\ UNCHANGED <<ticker, keys, stage, storage, endMatchCalls, playVars,
                   workerVars, matchVars>>

\* A confirmed click on the delete button of row k of the replay list:
\* showReplayList has loaded the collection, the click runs
\* replays.splice(index, 1), saveReplays() and showReplayList() again.
deleteReplay(k) ==
    /\ stage = "menu"
    /\ k \in 1..Len(loadReplays(storage))
    /\ storage' = Stringify(Splice(loadReplays(storage), k))
    /\ replays' = loadReplays(storage')
    /\ UNCHANGED <<ticker, keys, stage, endMatchCalls, playVars, workerVars,
                   matchVars>>

\* A timer set by setTimeout(showMenu, ...) fires: showMenu().
showMenu ==
    /\ menuTimers > 0
    /\ menuTimers' = menuTimers - 1
    /\ stage' = "menu"
    /\ ticker' = "none"
    /\ UNCHANGED <<keys, replays, storage, endMatchCalls, playFrames, speed,
                   currentIndex, elapsed, display, presented, playTime,
                   finishes, workerVars, matchVars>>

\* ========================================================== specifications

\* A record of an earlier match in the collection (loadReplays).
OldRecord == ReplayRecord("Rookie", 1, 0, <<>>)

\* The level the match is started with: selectedAILevel, 'Rookie' unless the
\* menu changed it.
MatchLevels == {aiLevels[1]}

\* No replay is being played.
PlayerIdle ==
    /\ playFrames = <<>>
    /\ speed = 100
    /\ currentIndex = 0
    /\ elapsed = 0
    /\ display = Null
    /\ menuTimers = 0
    /\ presented = <<>>
    /\ playTime = 0
    /\ finishes = 0

\* The local variables of startMatch at its end, the level left open.
MatchLocals ==
    /\ goalsEmitted = 0
    /\ workerThrew = FALSE
    /\ scoreLeft = 0
    /\ scoreRight = 0
    /\ timeLeftMs = REGULATION_MS
    /\ overtime = FALSE
    /\ latestState = Null
    /\ playerInput = NoInput
    /\ aiLastInput = NoInput
    /\ aiDecisionCountdown = 0
    /\ superCooldown1 = 0
    /\ superCooldown2 = 0
    /\ replayFrames = <<>>
    /\ recordAccumulator = 0
    /\ aiElapsed = -1
    /\ aiCommand = NoInput
    /\ aiHeld = FALSE
    /\ recordedMs = 0
    /\ sinceSuper1 = SUPER_COOLDOWN1_MS
    /\ sinceSuper2 = SUPER_COOLDOWN2_MS

\* The scene right after startMatch({ai: true, aiLevel, characterIndex}), the
\* level and the replay collection left open.
SceneStart ==
    /\ MatchLocals
    /\ ticker = "update"
    /\ keys = TRUE
    /\ stage = "match"
    /\ endMatchCalls = 0
    /\ PlayerIdle

\* The state right after startMatch({ai: true, aiLevel, characterIndex}).
Init ==
    /\ engine = "loading"
    /\ bodies = NoBodies
    /\ inbox = <<>>
    /\ outbox = <<>>
    /\ SceneStart
    /\ aiLevelName \in MatchLevels
    /\ replays \in {<<>>, <<OldRecord>>}
    /\ storage = Stringify(replays)

\* Frame deltas (app.ticker.deltaMS) of the match specification: regulation
\* and overtime expire both exactly (time left 0) and with a surplus.
Deltas == {45000, 90000}

\* Sample outcomes of world.Step.
BallSamples ==
    {Body(x, WORLD_HEIGHT - 100, 0, 0) :
        x \in {-GOAL_MARGIN - 1, -GOAL_MARGIN,
               WORLD_WIDTH + GOAL_MARGIN, WORLD_WIDTH + GOAL_MARGIN + 1}}

StepOutcomes ==
    {[k \in {"ball", "1", "2"} |->
        CASE k = "ball" -> b
          [] k = "1" -> Body(PLAYER1_START_X, 40, 0, 0)
          [] k = "2" -> Body(WORLD_WIDTH - PLAYER1_START_X, 40, 0, 0)] :
     b \in BallSamples}

\* ---- the match: the worker, the update loop and the super key.
Next ==
    \/ EngineLoaded
    \/ EngineFailed
    \/ \E stepped \in StepOutcomes : stepWorld(stepped)
    \/ WorkerOnMessage
    \/ \E d \in Deltas : \E err \in AimErrors(aiLevelName) : Update(d, err)
    \/ OnWorkerMessage
    \/ onKeyDown("KeyK")

Spec == Init /\ [][Next]_vars

\* ---- the match under a fair scheduler: the ticker keeps calling update and
\* the worker's event loop keeps handling the messages posted to it; the
\* engine may never load and the world may never be stepped. No key is
\* pressed.
NextLive ==
    \/ EngineLoaded
    \/ EngineFailed
    \/ \E stepped \in StepOutcomes : stepWorld(stepped)
    \/ WorkerOnMessage
    \/ \E d \in Deltas : \E err \in AimErrors(aiLevelName) : Update(d, err)
    \/ OnWorkerMessage

SpecLive ==
    /\ Init /\ [][NextLive]_vars
    /\ WF_vars(\E d \in Deltas : \E err \in AimErrors(aiLevelName) :
                  Update(d, err))
    /\ WF_vars(WorkerOnMessage)

\* ---- the driver alone: any sender of the protocol's inbound messages, and
\* worker.onmessage as the consumer; the update loop does not run.
DriverMessages ==
    {InputMsg("1", Input(TRUE, FALSE, TRUE, FALSE)), SuperMsg("2"), ResetMsg}

PostMessage(m) ==
    /\ WorkerLive
    /\ Len(inbox) < MaxInbox
    /\ inbox' = Append(inbox, m)
    /\ UNCHANGED <<engine, bodies, outbox, goalsEmitted, workerThrew, matchVars,
                   appVars>>

\* world.Step of the driver specification: the ball moves to a sample and
\* the players keep their state.
DriverBallSamples ==
    {Body(x, WORLD_HEIGHT - 100, 200, -100) :
        x \in {-GOAL_MARGIN - 1, -GOAL_MARGIN, WORLD_WIDTH + GOAL_MARGIN + 1}}

DriverStepOutcomes(bs) ==
    {[k \in {"ball", "1", "2"} |->
        CASE k = "ball" -> b
          [] k = "1" -> p1
          [] k = "2" -> p2] :
     b \in DriverBallSamples,
     p1 \in {bs["1"]},
     p2 \in {bs["2"]}}

NextDriver ==
    \/ EngineLoaded
    \/ EngineFailed
    \/ /\ engine = "running"
       /\ \E stepped \in DriverStepOutcomes(bodies) : stepWorld(stepped)
    \/ WorkerOnMessage
    \/ \E m \in DriverMessages : PostMessage(m)
    \/ OnWorkerMessage

InitDriver == Init /\ aiLevelName = aiLevels[1] /\ replays = <<>>

SpecDriver == InitDriver /\ [][NextDriver]_vars

\* ---- the AI: a match at the slowest and at the fastest level, with frame
\* deltas below the reaction times and snapshots that move the AI's target.
AILevels == {aiLevels[1], aiLevels[5]}

AIDeltas == {60, 120}

\* world.Step of the AI specification: the bodies stay where they are and
\* the ball's horizontal velocity changes, so the predicted x is -50 (below
\* the world), 805 (on the edge of the dead-band around the AI at 800) or
\* 1050 (beyond the world).
AIBallSamples == {Body(800, 60, vx, 0) : vx \in {-1700, 10, 500}}

AIStepOutcomes ==
    {[k \in {"ball", "1", "2"} |->
        CASE k = "ball" -> b
          [] k = "1" -> Body(PLAYER1_START_X, 40, 0, 0)
          [] k = "2" -> Body(WORLD_WIDTH - PLAYER1_START_X, 40, 0, 0)] :
     b \in AIBallSamples}

InitAI ==
    /\ engine = "loading"
    /\ bodies = NoBodies
    /\ inbox = <<>>
    /\ outbox = <<>>
    /\ SceneStart
    /\ aiLevelName \in AILevels
    /\ replays = <<>>
    /\ storage = Stringify(replays)

NextAI ==
    \/ EngineLoaded
    \/ \E stepped \in AIStepOutcomes : stepWorld(stepped)
    \/ WorkerOnMessage
    \/ /\ REGULATION_MS - timeLeftMs < MaxAITime
       /\ \E d \in AIDeltas : \E err \in AimErrors(aiLevelName) : Update(d, err)
    \/ OnWorkerMessage

SpecAI == InitAI /\ [][NextAI]_vars

\* ---- the commands: self.onmessage on every sampled command and body.
\* Player 1 after world.Step: at or just above the height limit of the jump
\* gate, with a vertical speed just below or at its limit, moving right.
CommandPlayers ==
    {Body(PLAYER1_START_X, 35, 150, 9), Body(PLAYER1_START_X, 35, 150, 10),
     Body(PLAYER1_START_X, 35, 150, -10), Body(PLAYER1_START_X, 36, 150, 0)}

CommandBodies ==
    {[InitialBodies EXCEPT !["1"] = p] : p \in CommandPlayers}

\* Every left-only command also asks for a jump.
CommandInputs ==
    {Input(TRUE, FALSE, TRUE, FALSE), Input(FALSE, TRUE, FALSE, FALSE),
     Input(TRUE, TRUE, TRUE, FALSE), Input(FALSE, FALSE, TRUE, FALSE)}

\* Commands for player 1 and for the id 3, which no body has.
CommandMessages ==
    {InputMsg("1", i) : i \in CommandInputs}
    \cup {InputMsg("3", Input(TRUE, FALSE, TRUE, FALSE)), SuperMsg("3")}

\* The worker is loading, or has stepped the world to a sample and posted
\* its snapshot; MaxInbox commands are under way to it.
InitCommands ==
    /\ engine \in {"loading", "running"}
    /\ bodies \in (IF engine = "running" THEN CommandBodies ELSE {NoBodies})
    /\ inbox \in [1..MaxInbox -> CommandMessages]
    /\ outbox = (IF engine = "running" THEN <<StateMsg(bodies)>> ELSE <<>>)
    /\ SceneStart
    /\ aiLevelName = aiLevels[1]
    /\ replays = <<>>
    /\ storage = Stringify(replays)

NextCommands ==
    \/ EngineLoaded
    \/ EngineFailed
    \/ WorkerOnMessage

SpecCommands == InitCommands /\ [][NextCommands]_vars

\* ---- the super command: self.onmessage on super messages for a player on
\* the ground, in the air, and falling fast after earlier super jumps.
SuperPlayers ==
    {Body(WORLD_WIDTH - PLAYER1_START_X, 40, 0, 0),
     Body(WORLD_WIDTH - PLAYER1_START_X, 300, 100, -1200),
     Body(WORLD_WIDTH - PLAYER1_START_X, 250, 0, -2400)}

SuperBodies == {[InitialBodies EXCEPT !["2"] = p] : p \in SuperPlayers}

SuperMessages ==
    {SuperMsg("1"), SuperMsg("2"),
     InputMsg("2", Input(FALSE, FALSE, TRUE, FALSE))}

\* The worker has stepped the world to a sample; MaxInbox commands are under
\* way to it and are handled before the next step.
InitSuper ==
    /\ engine = "running"
    /\ bodies \in SuperBodies
    /\ inbox \in [1..MaxInbox -> SuperMessages]
    /\ outbox = <<StateMsg(bodies)>>
    /\ SceneStart
    /\ aiLevelName = aiLevels[1]
    /\ replays = <<>>
    /\ storage = Stringify(replays)

NextSuper == WorkerOnMessage

SpecSuper == InitSuper /\ [][NextSuper]_vars

\* ---- the super throttles: a match in which every step leaves the ball
\* where it is above the AI, inside or just outside the window of the AI's
\* super, and the key K. The
\* frame deltas are below the AI's reaction time at first, then the page
\* stalls: 2 x 2500 ms is the cooldown of player 1, 2 x 3500 ms the AI's.
ThrottleDeltas(played) ==
    IF played < MaxShortTime THEN {100, 2500, 3500} ELSE {2500, 3500}

\* The ball is 59 cm beside and 101 cm above the AI (inside the window),
\* 60 cm beside it, or 100 cm above it.
ThrottleBallSamples ==
    {Body(741, 141, 0, 0), Body(740, 141, 0, 0), Body(741, 140, 0, 0)}

ThrottleStepOutcomes ==
    {[k \in {"ball", "1", "2"} |->
        CASE k = "ball" -> b
          [] k = "1" -> Body(PLAYER1_START_X, 40, 0, 0)
          [] k = "2" -> Body(WORLD_WIDTH - PLAYER1_START_X, 40, 0, 0)] :
     b \in ThrottleBallSamples}

\* The match has started and the engine runs; no snapshot has arrived yet.
InitThrottle ==
    /\ engine = "running"
    /\ bodies \in ThrottleStepOutcomes
    /\ inbox = <<>>
    /\ outbox = <<>>
    /\ SceneStart
    /\ aiLevelName = aiLevels[1]
    /\ replays = <<>>
    /\ storage = Stringify(replays)

NextThrottle ==
    \/ stepWorld(bodies)
    \/ WorkerOnMessage
    \/ /\ REGULATION_MS - timeLeftMs < MaxThrottleTime
       /\ \E d \in ThrottleDeltas(REGULATION_MS - timeLeftMs) :
            \E err \in AimErrors(aiLevelName) : Update(d, err)
    \/ OnWorkerMessage
    \/ onKeyDown("KeyK")

SpecThrottle == InitThrottle /\ [][NextThrottle]_vars

\* ---- the replay player: the menu with a stored collection, no match.
ReplaySnapshot(ballX) == [InitialBodies EXCEPT !["ball"] = Body(ballX, 60, 0, 0)]

\* Frames as the recorder builds them.
Frame1 == Frame(ReplaySnapshot(500), 0, 0, 89950)
Frame2 == Frame(ReplaySnapshot(700), 0, 0, 59000)
Frame3 == Frame(ReplaySnapshot(300), 1, 0, 58900)

\* Records as endMatch appends them, with 0, 1, 2 and 4 frames.
StoredReplays ==
    <<ReplayRecord("Rookie", 0, 0, <<>>),
      ReplayRecord("Rookie", 0, 0, PushFrames(<<>>, Frame1, 1)),
      ReplayRecord("Pro", 0, 0, PushFrames(PushFrames(<<>>, Frame1, 1), Frame2, 1)),
      ReplayRecord("Legend", 1, 0,
          PushFrames(PushFrames(PushFrames(<<>>, Frame1, 2), Frame2, 1),
                     Frame3, 1))>>

\* Frame deltas of the player in ticks: a 60 Hz frame, 100 ms, a stall.
ReplayDeltas == {50, 300, 700}

\* The menu is shown, no worker exists, the collection has been saved.
InitReplay ==
    /\ engine = "none"
    /\ bodies = NoBodies
    /\ inbox = <<>>
    /\ outbox = <<>>
    /\ MatchLocals
    /\ aiLevelName = aiLevels[1]
    /\ ticker = "none"
    /\ keys = FALSE
    /\ stage = "menu"
    /\ endMatchCalls = 0
    /\ PlayerIdle
    /\ replays = StoredReplays
    /\ storage = Stringify(replays)

NextReplay ==
    \/ \E i \in 1..Len(StoredReplays) : \E s \in Speeds : playReplay(i, s)
    \/ \E d \in ReplayDeltas : ReplayUpdate(d)
    \/ showMenu

SpecReplay == InitReplay /\ [][NextReplay]_vars

\* ---- the replay collection: a match that ends and appends its record, and
\* the replay list of the menu, on stored texts that are absent, well-formed
\* or hold a record that is not.
\* A record of another version of the program, without frames.
NoFramesRecord == [aiLevel |-> "Rookie", finalScore |-> <<2, 1>>]

StoredTexts ==
    {Null,
     Stringify(<<OldRecord, StoredReplays[2]>>),
     Stringify(<<OldRecord, StoredReplays[2], StoredReplays[3]>>),
     [json |-> <<OldRecord, Garbled, StoredReplays[2]>>],
     [json |-> <<OldRecord, NoFramesRecord, StoredReplays[2]>>]}

\* The frame delta of the collection specification: regulation and overtime
\* expire in one update each.
CollectionDeltas == {REGULATION_MS}

\* world.Step of the collection specification: the ball has fallen, no goal.
CollectionStepOutcomes == {ReplaySnapshot(WORLD_WIDTH \div 2)}

\* The page has loaded the collection (loadReplays() at start-up) and shows
\* the menu, or a match has just been started from it.
InitCollection ==
    /\ storage \in StoredTexts
    /\ replays = loadReplays(storage)
    /\ bodies = NoBodies
    /\ inbox = <<>>
    /\ outbox = <<>>
    /\ MatchLocals
    /\ aiLevelName = aiLevels[1]
    /\ endMatchCalls = 0
    /\ PlayerIdle
    /\ \/ engine = "none" /\ ticker = "none" /\ keys = FALSE /\ stage = "menu"
       \/ engine = "loading" /\ ticker = "update" /\ keys = TRUE
          /\ stage = "match"

NextCollection ==
    \/ EngineLoaded
    \/ \E stepped \in CollectionStepOutcomes : stepWorld(stepped)
    \/ WorkerOnMessage
    \/ \E d \in CollectionDeltas : \E err \in AimErrors(aiLevelName) :
         Update(d, err)
    \/ OnWorkerMessage
    \/ showMenu
    \/ showReplayList
    \/ \E k \in 1..Len(loadReplays(storage)) : deleteReplay(k)

SpecCollection == InitCollection /\ [][NextCollection]_vars

\* ---- the addressee of a command: self.onmessage on jump commands for
\* player 1 and on commands whose id is 'ball', the key of the ball in
\* `bodies`.
\* The height of the centre of a circle of radius r that rests on the ground.
RestingY(r) == GROUND_TOP + r

\* Player 1 after world.Step: at rest on the ground, or at the height limit
\* of the jump gate and nearly at rest vertically; it slides to the right.
TargetPlayers ==
    {Body(PLAYER1_START_X, RestingY(PLAYER_RADIUS), 150, 0),
     Body(PLAYER1_START_X, PLAYER_RADIUS + JUMP_Y_EPS, 150, 9),
     Body(PLAYER1_START_X, PLAYER_RADIUS + JUMP_Y_EPS, 150, -9)}

\* The ball after world.Step: where createBall put it, or rolling on the
\* ground.
TargetBalls ==
    {InitialBodies["ball"], Body(WORLD_WIDTH \div 2, RestingY(BALL_RADIUS), 100, 0)}

TargetBodies ==
    {[k \in {"ball", "1", "2"} |->
        CASE k = "ball" -> b
          [] k = "1" -> p
          [] k = "2" -> Body(WORLD_WIDTH - PLAYER1_START_X,
                             RestingY(PLAYER_RADIUS), 150, 0)] :
     b \in TargetBalls, p \in TargetPlayers}

\* Every command for player 1 asks for a jump; every command for the id
\* 'ball' would change the ball if it were applied to it.
TargetMessages ==
    {InputMsg("1", Input(FALSE, FALSE, TRUE, FALSE)),
     InputMsg("1", Input(TRUE, FALSE, TRUE, FALSE)),
     InputMsg("ball", Input(FALSE, TRUE, TRUE, FALSE)),
     SuperMsg("ball")}

\* The worker has stepped the world to a sample and posted its snapshot;
\* MaxInbox commands are under way to it and are handled before the next
\* step.
InitTargets ==
    /\ engine = "running"
    /\ bodies \in TargetBodies
    /\ inbox \in [1..MaxInbox -> TargetMessages]
    /\ outbox = <<StateMsg(bodies)>>
    /\ SceneStart
    /\ aiLevelName = aiLevels[1]
    /\ replays = <<>>
    /\ storage = Stringify(replays)

NextTargets == WorkerOnMessage

SpecTargets == InitTargets /\ [][NextTargets]_vars

\* ---- a player in the air: world.Step for a player that a super impulse
\* has thrown up beside the right wall. The walls end at y = WORLD_HEIGHT,
\* and nothing closes the world above them.
\* The top of a wall.
WallTop == WORLD_HEIGHT
\* The x of a player's centre when it touches the inner face of the right
\* wall, and when it touches the outer face.
WallFace == WORLD_WIDTH - WALL_HALF_WIDTH - PLAYER_RADIUS
WallBack == WORLD_WIDTH + WALL_HALF_WIDTH + PLAYER_RADIUS
\* The height of a player's centre from which it is above the wall
\* wherever it is: the wall's corner is taken as a square corner of the
\* wall grown by the radius, so a player of the model clears the wall no
\* earlier than a real one.
WallClear == WallTop + PLAYER_RADIUS

\* The distance covered in one step at velocity v, rounded towards zero
\* horizontally and downwards vertically, and the velocity gravity adds in
\* one step, rounded up: a player of the model moves no farther and rises
\* no higher than the real one.
StepAcross(v) == IF v < 0 THEN -((-v) \div STEP_HZ) ELSE v \div STEP_HZ
StepUp(v) == v \div STEP_HZ
GravityStep == (GRAVITY + STEP_HZ - 1) \div STEP_HZ

\* Friction on a contact that stops the velocity vn along its normal: the
\* tangential velocity vt loses up to FRICTION_PERCENT of |vn| and does not
\* change sign.
Braked(vt, vn) ==
    LET loss == (Abs(vn) * FRICTION_PERCENT) \div 100
    IN  IF vt > 0 THEN Max(0, vt - loss) ELSE Min(0, vt + loss)

\* One step of a player without contacts: Box2D integrates the velocity,
\* then the position with the new velocity; the bodies have no damping.
FreeStep(b) ==
    LET vy1 == b.vy - GravityStep
    IN  Body(b.x + StepAcross(b.vx), b.y + StepUp(vy1), b.vx, vy1)

\* world.Step for a player in the right half of the world that does not
\* move left: it flies freely, is stopped by the inner face of the right
\* wall while it is not above the wall, or comes to rest on the ground (the
\* restitution of 0.1 is left out).
PlayerStep(b) ==
    LET f == FreeStep(b)
    IN  IF b.x <= WallFace /\ f.x > WallFace /\ f.y < WallClear
        THEN Body(WallFace, Max(f.y, RestingY(PLAYER_RADIUS)), 0,
                  IF f.y <= RestingY(PLAYER_RADIUS) THEN 0
                  ELSE Braked(f.vy, b.vx))
        ELSE IF f.x <= WallFace /\ f.y <= RestingY(PLAYER_RADIUS)
        THEN Body(f.x, RestingY(PLAYER_RADIUS), Braked(f.vx, f.vy), 0)
        ELSE f

\* The step of the player is one PlayerStep models: it does not come down
\* onto the top of the wall, and it is not below the ground beside it.
StepModelled(b) ==
    LET f == FreeStep(b)
    IN  b.x <= WallFace \/ f.y >= WallClear \/ f.x >= WallBack

\* world.Step of the flight specification: the ball and player 1 lie at
\* rest on the ground, player 2 moves.
WorldStep(bs) == [bs EXCEPT !["2"] = PlayerStep(bs["2"])]

\* Player 2 has walked to the right wall and stands at it; the ball has
\* come to rest.
FlightStart ==
    [k \in {"ball", "1", "2"} |->
        CASE k = "ball" -> Body(WORLD_WIDTH \div 2, RestingY(BALL_RADIUS), 0, 0)
          [] k = "1" -> Body(PLAYER1_START_X, RestingY(PLAYER_RADIUS), 0, 0)
          [] k = "2" -> Body(WallFace, RestingY(PLAYER_RADIUS), 0, 0)]

PressRight == InputMsg("2", Input(FALSE, TRUE, FALSE, FALSE))

\* The sender of the flight specification: a super command for player 2
\* while it stands on the ground, the command to move right while it is
\* above the wall; one command at a time.
FlightSend(m) ==
    /\ inbox = <<>>
    /\ \/ m = SuperMsg("2") /\ bodies["2"].y = RestingY(PLAYER_RADIUS)
          /\ bodies["2"].vy = 0
       \/ m = PressRight /\ bodies["2"].y >= WallClear
    /\ PostMessage(m)

InitFlight ==
    /\ engine = "running"
    /\ bodies = FlightStart
    /\ inbox = <<>>
    /\ outbox = <<>>
    /\ SceneStart
    /\ aiLevelName = aiLevels[1]
    /\ replays = <<>>
    /\ storage = Stringify(replays)

\* The specification follows the player until a snapshot shows it beyond
\* WORLD_WIDTH + 0.5 m.
NextFlight ==
    \/ /\ bodies["2"].x <= WORLD_WIDTH + GOAL_MARGIN
       /\ StepModelled(bodies["2"])
       /\ stepWorld(WorldStep(bodies))
    \/ WorkerOnMessage
    \/ \E m \in {SuperMsg("2"), PressRight} : FlightSend(m)
    \/ OnWorkerMessage

SpecFlight == InitFlight /\ [][NextFlight]_vars

\* ================================================================== claims

Ended == stage = "result"
Last(q) == q[Len(q)]
HeadIsGoal == outbox # <<>> /\ Head(outbox).type = "goal"

\* C1: an update that makes regulation expire (time left <= 0, overtime not
\* started) with a tied score puts the match in Overtime with timeLeftMs =
\* 30000 exactly and both scores unchanged, for every frame delta; the
\* match is not ended by that update.
C1_TiedExpiryEntersOvertime ==
    [][(~overtime /\ scoreLeft = scoreRight /\ ticker = "update")
         => \A d \in {x \in Deltas : timeLeftMs - x <= 0} :
              \A err \in AimErrors(aiLevelName) :
                Update(d, err)
                => (overtime' /\ timeLeftMs' = 30000 /\ scoreLeft' = scoreLeft
                    /\ scoreRight' = scoreRight /\ ~Ended'
                    /\ ticker' = "update")]_vars

\* C1 witness: a match without any goal is in Overtime with 30000 ms left
\* and 0:0.
C1_Witness ==
    /\ overtime /\ ~Ended /\ timeLeftMs = 30000
    /\ scoreLeft = 0 /\ scoreRight = 0 /\ goalsEmitted = 0

\* C2: an update that makes regulation expire with an untied score ends the
\* match in that update, Overtime is not entered, and it is never entered
\* afterwards.
C2_UntiedExpiryEnds ==
    [][/\ (~overtime /\ scoreLeft # scoreRight /\ ticker = "update")
            => \A d \in {x \in Deltas : timeLeftMs - x <= 0} :
                 \A err \in AimErrors(aiLevelName) :
                   Update(d, err)
                   => (Ended' /\ ~overtime'
                       /\ endMatchCalls' = endMatchCalls + 1)
       /\ (Ended /\ ~overtime) => ~overtime']_vars

\* C2 witness: the match has ended at regulation expiry with an untied score.
C2_Witness ==
    Ended /\ ~overtime /\ timeLeftMs <= 0 /\ scoreLeft # scoreRight

\* C3: a goal message handled during Overtime ends the match in that very
\* handler run, whatever the time left.
C3_GoldenGoalEnds ==
    [][(HeadIsGoal /\ overtime /\ ~Ended /\ OnWorkerMessage)
         => (Ended' /\ endMatchCalls' = endMatchCalls + 1
             /\ ticker' = "none" /\ timeLeftMs' = timeLeftMs)]_vars

\* C3 witness: the match has ended in Overtime with overtime left on the
\* clock.
C3_Witness ==
    Ended /\ overtime /\ timeLeftMs > 0 /\ scoreLeft # scoreRight

\* C4: an update that makes Overtime expire ends the match with the score
\* unchanged, tied, and saved as the final score; and as long as Overtime
\* goes on the score does not change, so that score is the one Overtime
\* began with.
C4_OvertimeExpiryEnds ==
    [][/\ (overtime /\ ticker = "update")
            => \A d \in {x \in Deltas : timeLeftMs - x <= 0} :
                 \A err \in AimErrors(aiLevelName) :
                   Update(d, err)
                   => (/\ Ended'
                       /\ scoreLeft = scoreRight
                       /\ scoreLeft' = scoreLeft /\ scoreRight' = scoreRight
                       /\ Last(replays').finalScore = <<scoreLeft, scoreRight>>)
       /\ (overtime /\ ~Ended /\ ~Ended')
            => (scoreLeft' = scoreLeft /\ scoreRight' = scoreRight)]_vars

\* C4 witness: the match has ended by the expiry of Overtime, tied.
C4_Witness ==
    /\ Ended /\ overtime /\ timeLeftMs <= 0 /\ scoreLeft = scoreRight
    /\ Last(replays).finalScore = <<scoreLeft, scoreRight>>

\* C5: endMatch runs at most once in a match, and the replay collection
\* grows by exactly one record per run of endMatch (so by one record for the
\* match), under every interleaving of updates and worker messages.
C5_EndsExactlyOnce ==
    [][/\ endMatchCalls' <= 1
       /\ Ended' <=> endMatchCalls' = 1
       /\ Len(replays') - endMatchCalls' = Len(replays) - endMatchCalls]_vars

\* C5 witness: the match has ended while the driver had a goal message
\* under way, and one record was appended.
C5_Witness ==
    /\ Ended /\ endMatchCalls = 1 /\ Len(replays) = 2
    /\ goalsEmitted > scoreLeft + scoreRight

\* C6: once the match has ended, scoreLeft, scoreRight and timeLeftMs never
\* change, a goal message posted before the end included.
C6_EndedIsFrozen ==
    [][Ended => /\ scoreLeft' = scoreLeft
                /\ scoreRight' = scoreRight
                /\ timeLeftMs' = timeLeftMs
                /\ Ended']_vars

\* C6 witness: the match has ended and a goal the driver had posted was
\* never counted.
C6_Witness ==
    Ended /\ scoreLeft + scoreRight < goalsEmitted /\ outbox = <<>>

\* C7: a goal message handled before the end of the match adds exactly 1 to
\* the scorer's counter and leaves the other counter alone; in Overtime the
\* record saved by that handler run has the score with the goal counted.
C7_GoalCountsOnce ==
    [][(HeadIsGoal /\ ~Ended /\ OnWorkerMessage)
         => (/\ Head(outbox).scorer \in {"left", "right"}
             /\ Head(outbox).scorer = "left"
                  => scoreLeft' = scoreLeft + 1 /\ scoreRight' = scoreRight
             /\ Head(outbox).scorer = "right"
                  => scoreRight' = scoreRight + 1 /\ scoreLeft' = scoreLeft
             /\ overtime
                  => Last(replays').finalScore = <<scoreLeft', scoreRight'>>)]_vars

\* C7 witness: a golden-goal match has been saved with a final score that
\* includes the goal.
C7_Witness ==
    /\ Ended /\ overtime /\ timeLeftMs > 0
    /\ Last(replays).finalScore \in {<<1, 0>>, <<0, 1>>}

\* C8: a step that leaves the ball's x below -0.5 m posts a goal for the
\* right side, one that leaves it above WORLD_WIDTH + 0.5 m posts a goal
\* for the left side, one that leaves it in between posts no goal; and the
\* goal message, once handled, raises the score of the side it names.
C8_GoalAttribution ==
    [][/\ \A stepped \in StepOutcomes :
            stepWorld(stepped)
            => LET x == stepped["ball"].x
                   n == Len(outbox)
               IN  /\ x < -50
                        => (Len(outbox') = n + 2
                            /\ outbox'[n + 1] = [type |-> "goal", scorer |-> "right"])
                   /\ x > WORLD_WIDTH + 50
                        => (Len(outbox') = n + 2
                            /\ outbox'[n + 1] = [type |-> "goal", scorer |-> "left"])
                   /\ (x >= -50 /\ x <= WORLD_WIDTH + 50)
                        => (Len(outbox') = n + 1
                            /\ outbox'[n + 1].type = "state")
       /\ (HeadIsGoal /\ Head(outbox).scorer = "right" /\ OnWorkerMessage)
            => (scoreRight' = scoreRight + 1 /\ scoreLeft' = scoreLeft)
       /\ (HeadIsGoal /\ Head(outbox).scorer = "left" /\ OnWorkerMessage)
            => (scoreLeft' = scoreLeft + 1 /\ scoreRight' = scoreRight)]_vars

\* C8 witness: the only goal emitted so far was credited to the right side.
C8_Witness ==
    goalsEmitted = 1 /\ scoreRight = 1 /\ scoreLeft = 0 /\ ~Ended

InBounds(x) == x >= -50 /\ x <= WORLD_WIDTH + 50

StateCount(q) == Cardinality({i \in 1..Len(q) : q[i].type = "state"})

\* C9: every step posts exactly one snapshot, as its last message, and the
\* ball's x is within [-0.5 m, WORLD_WIDTH + 0.5 m] in every snapshot under
\* way and in the snapshot the consumer holds, whatever inbound messages
\* were handled.
C9_OneSnapshotInBounds ==
    [][/\ engine = "running"
            => \A stepped \in DriverStepOutcomes(bodies) :
                 stepWorld(stepped)
                 => (/\ StateCount(outbox') = StateCount(outbox) + 1
                     /\ Last(outbox').type = "state")
       /\ \A i \in 1..Len(outbox') :
            outbox'[i].type = "state" => InBounds(outbox'[i].state["ball"].x)
       /\ latestState' # Null => InBounds(latestState'["ball"].x)]_vars

\* C9 witness: after a goal, the consumer holds the snapshot taken after the
\* reset while commands were handled by the driver.
C9_Witness ==
    /\ goalsEmitted = 1 /\ latestState # Null
    /\ latestState["ball"].x = WORLD_WIDTH \div 2
    /\ bodies["1"].vx # 0

\* The snapshot of the start positions: ball at (WORLD_WIDTH / 2,
\* WORLD_HEIGHT - 1), players at (2, 1) and (WORLD_WIDTH - 2, 1), at rest.
StartSnapshot ==
    [k \in {"ball", "1", "2"} |->
        CASE k = "ball" -> [x |-> 500, y |-> 400, vx |-> 0, vy |-> 0]
          [] k = "1" -> [x |-> 200, y |-> 100, vx |-> 0, vy |-> 0]
          [] k = "2" -> [x |-> 800, y |-> 100, vx |-> 0, vy |-> 0]]

\* C10: a step that detects a goal posts the goal message and, right after
\* it, the snapshot of the start positions with all velocities zero; the
\* messages posted earlier stay in front and no inbound message is handled
\* by that step.
C10_GoalThenResetSnapshot ==
    [][engine = "running"
         => \A stepped \in DriverStepOutcomes(bodies) :
              (stepWorld(stepped) /\ ~InBounds(stepped["ball"].x))
              => LET n == Len(outbox)
                 IN  /\ Len(outbox') = n + 2
                     /\ SubSeq(outbox', 1, n) = outbox
                     /\ outbox'[n + 1].type = "goal"
                     /\ outbox'[n + 2] =
                          [type |-> "state", state |-> StartSnapshot]
                     /\ bodies' = StartSnapshot
                     /\ inbox' = inbox]_vars

\* C10 witness: a goal message is under way, followed by its snapshot,
\* while an inbound command is still waiting.
C10_Witness ==
    /\ Len(outbox) = 2 /\ outbox[1].type = "goal"
    /\ outbox[2] = [type |-> "state", state |-> StartSnapshot]
    /\ inbox # <<>>

\* The frame deltas an update taking the timer from t to t1 may have had.
DeltasOf(t, t1) == {x \in AIDeltas : t - x = t1 \/ t - x <= 0}

\* The reaction time of the match's level, in ms.
ReactionMs == aiProfiles[aiLevelName].reactionMs

\* Ms of updates that held a snapshot: the recorder counts them.
TimeWithState == RECORD_INTERVAL_MS * FrameCount(replayFrames) + recordAccumulator

\* C11: there are exactly five AI tiers, and in the order Rookie, Amateur,
\* Pro, Elite, Legend both the reaction time and the aim error strictly
\* decrease from each tier to the next; the match runs at one of the five,
\* so its decision countdown never exceeds the first tier's reaction time.
C11_ProfilesOrdered ==
    /\ aiLevels = <<"Rookie", "Amateur", "Pro", "Elite", "Legend">>
    /\ Cardinality(DOMAIN aiProfiles) = 5
    /\ \A i \in 1..4 :
         /\ aiProfiles[aiLevels[i]].reactionMs
              > aiProfiles[aiLevels[i + 1]].reactionMs
         /\ aiProfiles[aiLevels[i]].aimError
              > aiProfiles[aiLevels[i + 1]].aimError
    /\ aiLevelName \in DOMAIN aiProfiles
    /\ aiDecisionCountdown <= aiProfiles["Rookie"].reactionMs

\* C11 witness: a match at the last tier has made a decision and waits the
\* shortest reaction time, 120 ms.
C11_Witness ==
    aiLevelName = "Legend" /\ aiElapsed = 0 /\ aiDecisionCountdown = 120

\* C12: after a decision, an update that makes no new decision posts for
\* player 2 the command computed at that decision, unchanged, whatever
\* snapshot it holds; an update that makes the next decision comes when at
\* least reactionTime * 1000 ms of updates have accumulated since the
\* earlier one; nothing but an update posts commands or changes the
\* command.
C12_CommandHeldBetweenDecisions ==
    [][/\ (ticker = "update" /\ latestState # Null /\ aiElapsed >= 0)
            => \A d \in DeltasOf(timeLeftMs, timeLeftMs') :
                 \A err \in AimErrors(aiLevelName) :
                 (Update(d, err) /\ ~Ended')
                 => /\ Last(inbox').type = "input" /\ Last(inbox').id = "2"
                    /\ aiElapsed' > 0
                         => (/\ Last(inbox').input = aiCommand
                             /\ aiCommand' = aiCommand
                             /\ aiElapsed' = aiElapsed + d)
                    /\ aiElapsed' = 0 => aiElapsed + d >= ReactionMs
       /\ timeLeftMs' = timeLeftMs
            => (/\ aiCommand' = aiCommand /\ aiElapsed' = aiElapsed
                /\ Len(inbox') <= Len(inbox))]_vars

\* C12 witness: the last update came 60 ms after a decision and re-sent its
\* command, which no decision on the snapshot held by that update would
\* have given; the message is under way.
C12_Witness ==
    /\ aiHeld /\ aiElapsed = 60
    /\ inbox # <<>> /\ Last(inbox) = InputMsg("2", aiCommand)

\* C13: the time accumulated since a decision stays below the reaction
\* time, and the update with which it reaches reactionTime * 1000 ms makes
\* a new decision from the snapshot held: the countdown is reactionTime *
\* 1000 again, and if the new target is more than 0.05 m away from the
\* AI's x, the command posted by that update and kept for the next ones
\* points to the target.
C13_DecisionWhenReactionTimeElapsed ==
    [][/\ aiElapsed' < ReactionMs
       /\ (ticker = "update" /\ latestState # Null /\ aiElapsed >= 0)
            => \A d \in {x \in DeltasOf(timeLeftMs, timeLeftMs') :
                             aiElapsed + x >= ReactionMs} :
                 \A err \in AimErrors(aiLevelName) :
                   (Update(d, err) /\ ~Ended')
                   => LET ball == latestState["ball"]
                          ownX == latestState["2"].x
                          raw == ball.x + ball.vx \div 2 + err
                          target == IF raw < 0 THEN 0
                                    ELSE IF raw > 1000 THEN 1000 ELSE raw
                          cmd == Last(inbox').input
                      IN  /\ aiDecisionCountdown' = ReactionMs
                          /\ aiElapsed' = 0
                          /\ Last(inbox').id = "2"
                          /\ aiLastInput' = cmd
                          /\ target > ownX + 5 => (cmd.right /\ ~cmd.left)
                          /\ target < ownX - 5 => (cmd.left /\ ~cmd.right)]_vars

\* C13 witness: at the last tier the command of an earlier decision, left,
\* is still under way when an update at least 120 ms later has decided on
\* a snapshot whose target is to the right and has posted right.
C13_Witness ==
    /\ aiLevelName = "Legend" /\ aiElapsed = 0 /\ TimeWithState >= 180
    /\ Len(inbox) = 3
    /\ inbox[1] = InputMsg("2", Input(TRUE, FALSE, FALSE, FALSE))
    /\ inbox[3] = InputMsg("2", Input(FALSE, TRUE, FALSE, FALSE))
    /\ aiDecisionCountdown = 120

\* C14: at every AI decision the target lies in [0, WORLD_WIDTH]; the
\* command posted has left only if target < ownX - 0.05 m, right only if
\* target > ownX + 0.05 m, neither if |target - ownX| <= 0.05 m, and the
\* AI's command never has left and right together.
C14_TargetClampedDeadband ==
    [][/\ ~(aiLastInput'.left /\ aiLastInput'.right)
       /\ (ticker = "update" /\ latestState # Null /\ aiElapsed' = 0)
            => \A d \in DeltasOf(timeLeftMs, timeLeftMs') :
                 \A err \in AimErrors(aiLevelName) :
                 (Update(d, err) /\ ~Ended')
                 => LET dec == AIDecide(latestState, aiLastInput,
                                       Max(0, superCooldown2 - d), err)
                        ownX == latestState["2"].x
                        cmd == Last(inbox').input
                    IN  /\ dec.target >= 0 /\ dec.target <= 1000
                        /\ Last(inbox') = InputMsg("2", dec.input)
                        /\ cmd.left => dec.target < ownX - 5
                        /\ cmd.right => dec.target > ownX + 5
                        /\ Abs(dec.target - ownX) <= 5
                             => (~cmd.left /\ ~cmd.right)]_vars

\* C14 witness: at the last tier (aim error at most 0.03 m) a decision has
\* just given left, which only the snapshot with the predicted x below the
\* world gives: the target was clamped to 0; the command is under way.
C14_Witness ==
    /\ aiLevelName = "Legend" /\ aiElapsed = 0
    /\ aiCommand = Input(TRUE, FALSE, FALSE, FALSE)
    /\ inbox # <<>> /\ Last(inbox) = InputMsg("2", aiCommand)

\* The oldest command under way is an input for a body the world has.
HeadIsInputFor ==
    /\ inbox # <<>> /\ Head(inbox).type = "input"
    /\ Head(inbox).id \in DOMAIN bodies

\* C15: an input with jump set, handled for a player whose y is above
\* PLAYER_RADIUS + 0.05 m or whose |vy| is 0.1 m/s or more, applies no
\* impulse: the player's vertical velocity is the same after the handler.
C15_JumpGated ==
    [][(HeadIsInputFor /\ Head(inbox).input.jump /\ WorkerOnMessage)
         => LET b == bodies[Head(inbox).id]
            IN  (b.y > 30 + 5 \/ b.vy >= 10 \/ b.vy <= -10)
                  => bodies'[Head(inbox).id].vy = b.vy]_vars

\* C15 witness: left and jump were handled for the player at the height
\* limit with vy = 0.1 m/s: it moves left and its vy is still 0.1 m/s.
C15_Witness ==
    /\ engine = "running"
    /\ bodies["1"] = [x |-> 200, y |-> 35, vx |-> -400, vy |-> 10]

\* C16: an input handled for a player sets its vx to -4 m/s if only left
\* is pressed, to 4 m/s if only right is, to 0 if neither or both are; vy
\* is unchanged unless the input has jump and the gate lets it through,
\* and then it grows by the jump impulse; the position and the other
\* bodies are untouched.
C16_HorizontalVelocitySet ==
    [][(HeadIsInputFor /\ WorkerOnMessage)
         => LET id == Head(inbox).id
                in == Head(inbox).input
                b == bodies[id]
                a == bodies'[id]
            IN  /\ (in.left /\ ~in.right) => a.vx = -400
                /\ (in.right /\ ~in.left) => a.vx = 400
                /\ (in.left <=> in.right) => a.vx = 0
                /\ a.vy # b.vy
                     => (in.jump /\ b.y <= 35 /\ b.vy < 10 /\ b.vy > -10
                         /\ a.vy = b.vy + 620)
                /\ a.x = b.x /\ a.y = b.y
                /\ \A k \in DOMAIN bodies \ {id} : bodies'[k] = bodies[k]]_vars

\* C16 witness: player 1, who was moving at 1.5 m/s, stands still after a
\* command with neither or both directions, and has jumped.
C16_Witness ==
    /\ engine = "running"
    /\ bodies["1"] = [x |-> 200, y |-> 35, vx |-> 0, vy |-> 629]

Playing(rec) == stage = "replay" /\ playFrames = Flat(rec.frames)

\* The recorded values of frame number i of a log kept as runs.
RECURSIVE Recorded(_, _)
Recorded(log, i) ==
    IF i <= log[1][2] THEN log[1][1] ELSE Recorded(Tail(log), i - log[1][2])

\* Seconds shown for a positive time left: the ms rounded up.
SecondsUp(t) == (t + 999) \div 1000

\* C18: while a record with at least 2 frames is played at speed 1.0, the
\* frames applied so far are the first currentIndex frames of the record,
\* in recorded order, each once, shown with the recorded positions (in
\* pixel space, y downwards), scores and time (as minutes and seconds,
\* rounded up); an update only appends to them, and when completion is
\* signalled all frames of the record have been applied.
C18_ReplayRoundTrip ==
    [][\A r \in 1..Len(StoredReplays) :
         LET log == StoredReplays[r].frames
             total == FrameCount(log)
         IN  (Playing(StoredReplays[r])' /\ total >= 2 /\ speed' = 100)
             => /\ Len(presented') = currentIndex' /\ currentIndex' <= total
                /\ \A i \in 1..currentIndex' :
                     LET f == Recorded(log, i)
                         shown == presented'[i]
                     IN  /\ shown.ball = <<f.ball[1], 500 - f.ball[2]>>
                         /\ shown.p1 = <<f.p1[1], 500 - f.p1[2]>>
                         /\ shown.p2 = <<f.p2[1], 500 - f.p2[2]>>
                         /\ shown.scoreText = <<f.scoreLeft, f.scoreRight>>
                         /\ shown.timerText[1] * 60 + shown.timerText[2]
                              = SecondsUp(f.timeLeft)
                /\ currentIndex' > 0 => display' = presented'[currentIndex']
                /\ Playing(StoredReplays[r])
                     => SubSeq(presented', 1, Len(presented)) = presented
                /\ finishes' = 1 => currentIndex' = total]_vars

\* C18 witness: the record with four frames has been played to the end at
\* speed 1.0: four frames were applied, the first two equal as recorded,
\* the last with the score 1 : 0 and 0:59 on the timer.
C18_Witness ==
    /\ Playing(StoredReplays[4]) /\ speed = 100 /\ finishes = 1
    /\ Len(presented) = 4 /\ presented[1] = presented[2]
    /\ presented[3].ball = <<700, 440>>
    /\ presented[4].scoreText = <<1, 0>> /\ presented[4].timerText = <<0, 59>>

\* C19: during playback at speed s, frame number i (from 1) has been
\* applied exactly when the accumulated time of the update calls has
\* reached i * 100 / s ms; so at speed 2.0 every frame is applied at half
\* the accumulated time of speed 1.0 (50 ms a frame instead of 100 ms).
C19_ReplaySpeedScaling ==
    stage = "replay"
    => /\ \A i \in 1..Len(playFrames) :
            i <= currentIndex <=> playTime * speed >= i * 100 * 3 * 100
       /\ speed = 100 => currentIndex = Min(Len(playFrames), playTime \div 300)
       /\ speed = 200 => currentIndex = Min(Len(playFrames), playTime \div 150)

\* C19 witness: at speed 2.0 the first two of four frames have been applied
\* after 100 ms (300 ticks) of updates.
C19_Witness ==
    /\ stage = "replay" /\ speed = 200 /\ Len(playFrames) = 4
    /\ playTime = 300 /\ currentIndex = 2 /\ Len(presented) = 2

\* C20: a playback signals completion at most once: the update that finds
\* all frames applied removes itself from the ticker and sets the menu
\* timer, whatever the number of frames and the frame delta, and nothing
\* else sets a timer or signals completion; at most one timer is pending.
C20_CompletionOnce ==
    [][/\ finishes' <= 1 /\ menuTimers' <= 1
       /\ (ticker = "replay" /\ currentIndex >= Len(playFrames))
            => \A d \in ReplayDeltas :
                 ReplayUpdate(d)
                 => (/\ finishes' = 1 /\ ticker' = "none"
                     /\ menuTimers' = menuTimers + 1)
       /\ (finishes' # finishes \/ menuTimers' > menuTimers)
            => \/ (finishes' = 0 /\ menuTimers' = menuTimers)
               \/ (/\ ticker = "replay" /\ currentIndex >= Len(playFrames)
                   /\ finishes' = finishes + 1
                   /\ menuTimers' = menuTimers + 1)
       /\ (ticker = "replay" /\ ticker' # "replay")
            => finishes' = finishes + 1]_vars

\* C20 witness: a record without frames was played: the first update
\* signalled completion, nothing was applied and the menu timer is pending.
C20_Witness ==
    /\ stage = "replay" /\ playFrames = <<>> /\ finishes = 1
    /\ ticker = "none" /\ menuTimers = 1 /\ presented = <<>> /\ playTime > 0

\* C21: the state of a playback is a function of the record, the speed and
\* the accumulated time of its update calls alone, however that time was
\* split into frame deltas: the number of frames applied is the number of
\* frame durations the time holds (at most the record's length), the frames
\* applied are the first of the record in order, the stage shows the last
\* of them, and while frames remain the unconsumed time is the remainder.
\* So two playbacks of one record at one speed with the same accumulated
\* time have applied and show the same frames.
C21_PlaybackDeterminism ==
    stage = "replay"
    => LET total == Len(playFrames)
           n == Min(total, playTime \div frameDuration(speed))
       IN  /\ currentIndex = n
           /\ presented = [k \in 1..n |-> Shown(playFrames[k])]
           /\ display = (IF n = 0 THEN Null ELSE Shown(playFrames[n]))
           /\ n < total => elapsed = playTime - n * frameDuration(speed)

\* C21 witness: 1000 ticks at speed 1.0 on the record of four frames, which
\* updates of 300 + 700, of 700 + 300 and twenty of 50 ticks all add up
\* to: three frames applied, 100 ticks not consumed.
C21_Witness ==
    /\ stage = "replay" /\ speed = 100 /\ Len(playFrames) = 4
    /\ playTime = 1000 /\ currentIndex = 3 /\ elapsed = 100
    /\ Len(presented) = 3 /\ display = presented[3]

\* The frames of a log kept as runs, in order, without their last n.
RECURSIVE AllButLast(_, _)
AllButLast(log, n) ==
    IF n = 0 THEN log
    ELSE IF Last(log)[2] > n
    THEN [log EXCEPT ![Len(log)] = <<@[1], @[2] - n>>]
    ELSE AllButLast(SubSeq(log, 1, Len(log) - 1), n - Last(log)[2])

\* The recorder has pushed one frame for every 100 ms of the updates it
\* ran in, and holds the rest below 100 ms.
RecorderExact ==
    /\ FrameCount(replayFrames) = recordedMs \div 100
    /\ 0 <= recordAccumulator /\ recordAccumulator < 100
    /\ recordAccumulator = recordedMs - 100 * FrameCount(replayFrames)

\* C22: in a live match the number of recorded frames is floor(T / 100),
\* T being the total time of the updates made with a snapshot available,
\* and 0 <= recordAccumulator < 100 after every update; the frames an
\* update appends hold the positions of the latest snapshot, the scores
\* and the time left after that update, and the frames before them stay.
C22_RecorderNoDrift ==
    [][/\ ~Ended => RecorderExact
       /\ ~Ended' => RecorderExact'
       /\ recordedMs' # recordedMs
            => /\ latestState # Null
               /\ recordedMs' - recordedMs = timeLeftMs - timeLeftMs'
       /\ FrameCount(replayFrames') # FrameCount(replayFrames)
            => /\ Last(replayFrames')[1] =
                    Frame(latestState, scoreLeft, scoreRight, timeLeftMs')
               /\ Last(replayFrames')[1].timeLeft = timeLeftMs'
               /\ AllButLast(replayFrames',
                      FrameCount(replayFrames') - FrameCount(replayFrames))
                    = replayFrames]_vars

\* C22 witness: 300 ms of updates with a snapshot, the last of 120 ms on
\* an accumulator of 80 ms, so that it pushed two frames at once; before
\* the first snapshot an update had already passed.
C22_Witness ==
    /\ ~Ended /\ recordedMs = 300 /\ FrameCount(replayFrames) = 3
    /\ recordAccumulator = 0
    /\ Last(replayFrames)[2] >= 2
    /\ REGULATION_MS - timeLeftMs > recordedMs

\* The records of the persisted collection: the parts of the stored text.
Persisted(item) == IF item = Null THEN <<>> ELSE item.json

\* list2 is list1 with one record added last.
IsAppend(list1, list2) ==
    Len(list2) = Len(list1) + 1 /\ SubSeq(list2, 1, Len(list1)) = list1

\* list2 is list1 without the record at k, the others in order.
IsDelete(list1, list2, k) ==
    /\ Len(list2) = Len(list1) - 1
    /\ \A i \in 1..Len(list2) : list2[i] = list1[IF i < k THEN i ELSE i + 1]

\* C23: the persisted collection changes only by an append (at match end:
\* the records it held stay, in order, and the new one is last) or by the
\* deletion of the record at one index (the others stay, in order); and
\* after each such operation the persisted list is the in-memory list.
C23_Counterexample ==
    [][storage' # storage
         => /\ \/ /\ endMatchCalls' = endMatchCalls + 1
                  /\ IsAppend(Persisted(storage), Persisted(storage'))
               \/ \E k \in 1..Len(Persisted(storage)) :
                    IsDelete(Persisted(storage), Persisted(storage'), k)
            /\ Persisted(storage') = replays']_vars

\* A record as endMatch builds it.
WellFormed(rec) ==
    rec # Garbled /\ DOMAIN rec = {"aiLevel", "finalScore", "frames"}

\* C24: when the collection has been loaded from a stored text, the
\* in-memory list holds the well-formed records of the text, in order, and
\* nothing else: a malformed record is dropped, and only that record.
C24_Counterexample ==
    (stage = "menu" /\ storage # Null)
    => replays = SelectSeq(Persisted(storage), WellFormed)

\* C25: when the physics engine has failed to initialize, the match does
\* not go on without a world: the timer does not count down, no phase
\* begins, the match does not end and no replay is saved.
C25_Counterexample ==
    [][engine = "failed"
         => (/\ timeLeftMs' = timeLeftMs /\ overtime' = overtime
             /\ stage' = stage /\ replays' = replays
             /\ storage' = storage)]_vars

\* C26: timeLeftMs is never negative: an update whose frame delta exceeds
\* the time left leaves it at 0, or at 30000 when Overtime begins.
C26_Counterexample == timeLeftMs >= 0 /\ timeLeftMs <= REGULATION_MS

\* C27: once the match has ended the driver is cancelled (the worker is
\* terminated, it steps no world and handles no message) and nothing that
\* posts an input or super message, takes an AI decision or appends a
\* frame can run any more: update is off the ticker and the keys are
\* detached; the record saved for the match holds the frame log as it is.
C27_EndedDetached ==
    Ended
    => /\ engine = "terminated"
       /\ ~ENABLED WorkerOnMessage
       /\ ~ENABLED (\E stepped \in StepOutcomes : stepWorld(stepped))
       /\ ~ENABLED (\E d \in Deltas : \E err \in AimErrors(aiLevelName) :
                      Update(d, err))
       /\ ~ENABLED onKeyDown("KeyK")
       /\ inbox = <<>>
       /\ Last(replays).frames = replayFrames

\* C27 witness: a match has ended in which frames were recorded and the AI
\* had decided; player 1's super is off cooldown, so the key K would post
\* a super message if it were still attached.
C27_Witness ==
    /\ Ended /\ FrameCount(replayFrames) > 0 /\ aiElapsed >= 0
    /\ superCooldown1 = 0 /\ ~keys /\ ticker = "none"
    /\ Last(replays).frames = replayFrames

\* The head of the worker's inbox is a reset message.
HeadIsReset == inbox # <<>> /\ Head(inbox).type = "reset"

\* C28: a reset message handled once the world exists puts the ball at
\* (WORLD_WIDTH / 2, WORLD_HEIGHT - 1) and the players at (2, 1) and
\* (WORLD_WIDTH - 2, 1), all with velocity zero, whatever the bodies were
\* doing; that is resetPositions, applying it again changes nothing, and
\* the handler posts no goal and no state message.
C28_ResetPositions ==
    [][(HeadIsReset /\ engine = "running" /\ WorkerOnMessage)
         => (/\ bodies'["ball"] = Body(500, 400, 0, 0)
             /\ bodies'["1"] = Body(200, 100, 0, 0)
             /\ bodies'["2"] = Body(800, 100, 0, 0)
             /\ DOMAIN bodies' = {"ball", "1", "2"}
             /\ bodies' = resetPositions(bodies)
             /\ resetPositions(bodies') = bodies'
             /\ outbox' = outbox
             /\ goalsEmitted' = goalsEmitted
             /\ workerThrew' = workerThrew)]_vars

\* C28 witness: the ball had moved (the last snapshot posted shows it at
\* x = -50 with velocity, and no goal was ever emitted) and the bodies are
\* back at their starting state: a reset message has been handled.
C28_Witness ==
    /\ engine = "running" /\ goalsEmitted = 0 /\ ~workerThrew
    /\ outbox # <<>> /\ Last(outbox).type = "state"
    /\ Last(outbox).state["ball"] = Body(-50, 400, 200, -100)
    /\ bodies = InitialBodies

\* The head of the worker's inbox is a super message for a body.
HeadIsSuperFor(id) ==
    /\ inbox # <<>> /\ Head(inbox).type = "super" /\ Head(inbox).id = id
    /\ id \in DOMAIN bodies

\* C29: every super message for an existing player adds 12 m/s (an impulse
\* of 12 * mass) to the player's vertical velocity, whatever its height
\* and vertical velocity, and changes nothing else; the worker keeps no
\* cooldown, so super messages handled one after another each add it.
C29_SuperUnconditional ==
    [][\A id \in {"1", "2"} :
         (HeadIsSuperFor(id) /\ WorkerOnMessage)
         => (/\ bodies'[id].vy = bodies[id].vy + 1200
             /\ bodies'[id].x = bodies[id].x /\ bodies'[id].y = bodies[id].y
             /\ bodies'[id].vx = bodies[id].vx
             /\ \A k \in DOMAIN bodies \ {id} : bodies'[k] = bodies[k]
             /\ DOMAIN bodies' = DOMAIN bodies
             /\ outbox' = outbox)]_vars

\* C29 witness: player 2, in the air at 2.5 m and falling at 24 m/s, has
\* received all the commands under way, each a super message for it (any
\* other command would have left another velocity): three impulses, no
\* step in between, and it rises at 12 m/s.
C29_Witness ==
    /\ inbox = <<>> /\ bodies["2"] = Body(800, 250, 0, 1200)
    /\ outbox = <<StateMsg([InitialBodies EXCEPT !["2"] =
                               Body(800, 250, 0, -2400)])>>

\* The super messages for the player id among the messages of q.
SupersFor(q, id) == Cardinality({i \in 1..Len(q) : q[i] = SuperMsg(id)})

\* The super messages for id that a step of the main thread posts.
SupersPosted(id) ==
    IF Len(inbox') > Len(inbox)
    THEN SupersFor(inbox', id) - SupersFor(inbox, id)
    ELSE 0

\* The ball of the snapshot is more than 1.0 m above the AI and less than
\* 0.6 m beside it.
BallInSuperWindow ==
    /\ latestState # Null
    /\ latestState["ball"].y > latestState["2"].y + 100
    /\ Abs(latestState["ball"].x - latestState["2"].x) < 60

\* C30: a step posts at most one super message for a player. One for
\* player 1 is posted only when the updates since the previous one add up
\* to 5000 ms or more (or there was none), one for the AI only when they
\* add up to 7000 ms or more, the posting update included, and only by an
\* update that takes an AI decision on a snapshot with the ball more than
\* 1.0 above the AI and within 0.6 of it horizontally; and the AI that
\* decides so with its cooldown over does post it.
C30_SuperThrottled ==
    [][/\ SupersPosted("1") \in {0, 1} /\ SupersPosted("2") \in {0, 1}
       /\ SupersPosted("1") = 1
            => /\ sinceSuper1 >= 5000
               /\ sinceSuper1' = 0
               /\ timeLeftMs' = timeLeftMs
       /\ SupersPosted("2") = 1
            => /\ sinceSuper2 + (timeLeftMs - timeLeftMs') >= 7000
               /\ sinceSuper2' = 0
               /\ aiElapsed' = 0
               /\ BallInSuperWindow
       /\ (aiElapsed' = 0 /\ timeLeftMs' < timeLeftMs /\ BallInSuperWindow
           /\ sinceSuper2 + (timeLeftMs - timeLeftMs') >= 7000)
            => SupersPosted("2") = 1]_vars

\* C30 witness: the AI posted a super message at its first decision, after
\* 100 ms, and one more exactly 7000 ms of updates later; player 1's super
\* is not cooling down.
C30_Witness ==
    /\ REGULATION_MS - timeLeftMs = 7100 /\ sinceSuper2 = 0
    /\ superCooldown2 = 7000 /\ BallInSuperWindow
    /\ superCooldown1 = 0 /\ sinceSuper1 = 5000
    /\ SupersFor(inbox, "2") = 1

\* The head of the worker's inbox is an input or a super message.
HeadIsCommand ==
    inbox # <<>> /\ Head(inbox).type \in {"input", "super"}

\* C31: handling an input or a super message leaves the ball's position
\* and velocity as they were, whatever id the message carries.
C31_Counterexample ==
    [][(HeadIsCommand /\ engine = "running" /\ WorkerOnMessage)
         => bodies'["ball"] = bodies["ball"]]_vars

\* C33: whenever the match is in Overtime and has not ended, the scores are
\* equal: Overtime begins only on a tie, and a goal handled in Overtime
\* ends the match in the same step.
C33_OvertimeTied == (overtime /\ ~Ended) => scoreLeft = scoreRight

\* C33 witness: Overtime is going on at 0:0 and a goal message of the
\* driver is the next to be handled.
C33_Witness ==
    /\ overtime /\ ~Ended /\ HeadIsGoal /\ goalsEmitted = 1
    /\ scoreLeft = 0 /\ scoreRight = 0 /\ timeLeftMs = OVERTIME_MS

\* C34: a match that ends by the expiry of regulation (an update, Overtime
\* not begun) ends with scoreLeft # scoreRight; a match that ends by a
\* golden goal (a goal message handled in Overtime) ends with the scores
\* one apart when endMatch runs, and that score is the one saved; so a
\* match that ends tied has ended by an update that made Overtime expire.
C34_TiedOnlyAfterOvertime ==
    [][(~Ended /\ Ended')
         => /\ (timeLeftMs' # timeLeftMs /\ ~overtime')
                 => (scoreLeft' # scoreRight' /\ timeLeftMs' <= 0)
            /\ timeLeftMs' = timeLeftMs
                 => (/\ overtime /\ HeadIsGoal
                     /\ Abs(scoreLeft' - scoreRight') = 1
                     /\ Last(replays').finalScore = <<scoreLeft', scoreRight'>>)
            /\ scoreLeft' = scoreRight'
                 => (overtime /\ timeLeftMs' < timeLeftMs /\ timeLeftMs' <= 0)]_vars

\* C34 witness: a match has ended by a golden goal, one goal apart, with
\* no message of the driver left.
C34_Witness ==
    /\ Ended /\ overtime /\ timeLeftMs > 0 /\ endMatchCalls = 1
    /\ Abs(scoreLeft - scoreRight) = 1 /\ goalsEmitted = 1 /\ outbox = <<>>
    /\ Last(replays).finalScore = <<scoreLeft, scoreRight>>

\* C36: a player at rest on the ground (its centre PLAYER_RADIUS above the
\* top of the ground, vertical velocity 0) for whom an input with jump set
\* is handled passes the jump gate and gets the jump impulse: its vertical
\* velocity becomes 6.2 m/s.
C36_Counterexample ==
    [][\A id \in {"1", "2"} :
         (/\ HeadIsInputFor /\ Head(inbox).id = id /\ Head(inbox).input.jump
          /\ bodies[id].y = RestingY(PLAYER_RADIUS) /\ bodies[id].vy = 0
          /\ WorkerOnMessage)
         => bodies'[id].vy = JUMP_IMPULSE]_vars

\* The bodies of the snapshot the worker posted before it handled the
\* commands under way.
BeforeCommands == Head(outbox).state

\* C38: input messages with jump set for one player, handled one after
\* another with no step of the world in between, apply the jump impulse at
\* most once: the player's vertical velocity is the one of the last step or
\* 6.2 m/s more, and once the impulse was applied the velocity is at or
\* above the gate's limit of 0.1 m/s.
C38_NoDoubleJump ==
    \A id \in {"1", "2"} :
        /\ bodies[id].vy \in {BeforeCommands[id].vy, BeforeCommands[id].vy + 620}
        /\ bodies[id].vy # BeforeCommands[id].vy
             => bodies[id].vy >= 10

\* C38 witness: player 1 was at the gate's height limit with vy = -0.09
\* m/s; all the commands under way have been handled and each was an input
\* with jump for player 1 (the ball, which every other command changes, is
\* as it was); its velocity is 6.2 m/s more, the last command's left is
\* applied.
C38_Witness ==
    /\ inbox = <<>> /\ bodies["ball"] = BeforeCommands["ball"]
    /\ BeforeCommands["1"] = Body(200, 35, 150, -9)
    /\ bodies["1"] = Body(200, 35, -400, 611)

\* C37: a reset message handled by the worker at any time, also before the
\* engine has loaded and the world and its bodies exist, raises no error:
\* no exception escapes the handler, and the worker is as it was.
C37_Counterexample ==
    [][(HeadIsReset /\ WorkerOnMessage)
         => (workerThrew' = workerThrew /\ engine' = engine)]_vars

C32_Counterexample ==
    /\ \A i \in 1..Len(outbox) :
         outbox[i].type = "state"
         => \A id \in {"1", "2"} : InBounds(outbox[i].state[id].x)
    /\ latestState # Null
         => \A id \in {"1", "2"} : InBounds(latestState[id].x)

====
